---- MODULE Spec2Model ----
(***************************************************************************)
(* Micro-SI intake: the intake schema (IntakeSchema, zod), the normalizer  *)
(* (buildNormalizedIntake), the preview pipeline, the wizard and the       *)
(* submit flow of src/app/page.tsx; the intake route (POST), the blueprint *)
(* page and its helpers of src/app/blueprint/[id]/page.tsx.                *)
(*                                                                         *)
(* Representation.  A text is a sequence of tokens.  A token is a single   *)
(* character, or an atomic literal piece whose characters no operation of  *)
(* the program inspects (an enum name, the ".interaction.accepted"         *)
(* suffix).  The JavaScript values undefined and null of a text-valued     *)
(* field are the reserved one-token sequences Undefined and Null.  Enum    *)
(* fields hold TLA+ strings, array fields hold sequences of strings.       *)
(***************************************************************************)
EXTENDS Integers, Sequences, FiniteSets, TLC

VARIABLES values, edits, pc, parsed, normalized,
          step, submitState, serverMsg, localStorage, requests, env,
          location, data, missing, effect, pushed, call, returned

vars == <<values, edits, pc, parsed, normalized,
          step, submitState, serverMsg, localStorage, requests, env,
          location, data, missing, effect, pushed, call, returned>>

\* the variables of the submit flow and of the blueprint page
appVars == <<step, submitState, serverMsg, localStorage, requests, env,
             location, data, missing, effect, pushed>>

\* the variables of a call of a helper of the blueprint page
helperVars == <<call, returned>>

(***************************************************************************)
(* Bounds of the model.                                                    *)
(***************************************************************************)
\* number of fields in which a candidate differs from the form's defaults
MaxEdits == 2
\* longest free text typed into a companion field
MaxStrLen == 2
\* longest text typed into customContextFields
MaxCustomLen == 6
\* longest subjectTemplate typed by the user
MaxSubjectLen == 6

(***************************************************************************)
(* JavaScript values.                                                      *)
(***************************************************************************)
Undefined == <<"<undefined>">>
Null == <<"<null>">>

\* a value the declared enum does not contain
Bogus == "bogus"

Chars == {" ", "a"}
CustomChars == {" ", ",", "a", "b"}

RECURSIVE TextsOver(_, _)
TextsOver(alphabet, n) ==
  IF n = 0 THEN {<<>>}
  ELSE LET T == TextsOver(alphabet, n - 1)
       IN  T \cup {Append(t, c) : t \in T, c \in alphabet}

RECURSIVE Repeat(_, _)
Repeat(c, n) == IF n = 0 THEN <<>> ELSE <<c>> \o Repeat(c, n - 1)

IsSpace(c) == c = " "

\* String.prototype.trim
RECURSIVE TrimStart(_)
TrimStart(s) ==
  IF s = <<>> THEN <<>>
  ELSE IF IsSpace(Head(s)) THEN TrimStart(Tail(s)) ELSE s

RECURSIVE TrimEnd(_)
TrimEnd(s) ==
  IF s = <<>> THEN <<>>
  ELSE IF IsSpace(s[Len(s)]) THEN TrimEnd(SubSeq(s, 1, Len(s) - 1)) ELSE s

Trim(s) == TrimEnd(TrimStart(s))

\* Array.prototype.includes
Includes(arr, x) == \E i \in 1..Len(arr) : arr[i] = x

\* truthiness of a text-valued field: undefined, null and "" are falsy
Truthy(s) == s # Undefined /\ s # Null /\ s # <<>>

\* a ?? b
Coalesce(a, b) == IF a = Undefined \/ a = Null THEN b ELSE a

(***************************************************************************)
(* The declared value sets of IntakeSchema.                                *)
(***************************************************************************)
CRM_ENUM == {"hubspot", "salesforce", "other"}
CONTACT_CENTER_ENUM == {"ringcentral", "five9", "genesys", "nice", "other"}
AGENT_WORKSPACE_ENUM ==
  {"native_ccp_desktop", "embedded_crm_panel", "custom_workspace", "hybrid_workspace", "unknown"}
CRM_ACTIVITY_ENUM == {"engagement", "task", "note"}
OWNER_STRATEGY_ENUM == {"map_agent_email", "fixed_owner", "unassigned"}
PHONE_NORM_ENUM == {"us_e164", "as_is", "other"}
CONTEXT_PLACEMENT_ENUM == {"interaction_tab", "sidebar", "unknown"}
VOLUME_ENUM == {"lt_100", "100_1000", "1000_10000", "gt_10000"}
LATENCY_ENUM == {"best_effort", "under_2s", "under_500ms"}
SENSITIVITY_ENUM == {"low", "pii", "regulated"}
LOGGING_ENUM == {"mask_pii", "no_payload_logging"}
MODE_LITERAL == {"feedback_only"}
ENVIRONMENT_ENUM == {"sandbox", "demo"}
DIRECTION_ENUM == {"inbound", "outbound", "both"}
ASSOCIATION_ENUM == {"contact", "company", "deal"}
MATCHING_ENUM == {"ani_phone_match", "external_id"}

\* the fields of the schema, in declaration order
FieldOrder ==
  << "mode", "crm", "otherCrmName", "contactCenter", "otherContactCenterName",
     "agentWorkspace", "environment", "direction", "voiceOnly",
     "crmActivityObjectType", "subjectTemplate", "associations",
     "matchingStrategy", "phoneNormalization", "externalIdField",
     "contextFields", "customContextFields", "contextPlacement",
     "ownerStrategy", "fixedOwner", "storeCallId", "callIdField",
     "expectedVolume", "idempotencyKey", "latencyTarget",
     "dataSensitivity", "logging" >>

FieldNames == {FieldOrder[i] : i \in 1..Len(FieldOrder)}

EnumFields ==
  {"mode", "crm", "contactCenter", "agentWorkspace", "environment", "direction",
   "crmActivityObjectType", "phoneNormalization", "contextPlacement",
   "ownerStrategy", "expectedVolume", "latencyTarget", "dataSensitivity", "logging"}

EnumOf(f) ==
  CASE f = "mode" -> MODE_LITERAL
    [] f = "crm" -> CRM_ENUM
    [] f = "contactCenter" -> CONTACT_CENTER_ENUM
    [] f = "agentWorkspace" -> AGENT_WORKSPACE_ENUM
    [] f = "environment" -> ENVIRONMENT_ENUM
    [] f = "direction" -> DIRECTION_ENUM
    [] f = "crmActivityObjectType" -> CRM_ACTIVITY_ENUM
    [] f = "phoneNormalization" -> PHONE_NORM_ENUM
    [] f = "contextPlacement" -> CONTEXT_PLACEMENT_ENUM
    [] f = "ownerStrategy" -> OWNER_STRATEGY_ENUM
    [] f = "expectedVolume" -> VOLUME_ENUM
    [] f = "latencyTarget" -> LATENCY_ENUM
    [] f = "dataSensitivity" -> SENSITIVITY_ENUM
    [] f = "logging" -> LOGGING_ENUM

\* z.string().trim().optional()
OptionalTextFields ==
  {"otherCrmName", "otherContactCenterName", "externalIdField", "customContextFields", "fixedOwner"}

\* z.string().trim()
RequiredTextFields == {"callIdField", "idempotencyKey"}

BooleanFields == {"voiceOnly", "storeCallId"}

ElementEnumOf(f) == IF f = "associations" THEN ASSOCIATION_ENUM ELSE MATCHING_ENUM

(***************************************************************************)
(* useForm defaultValues.                                                  *)
(***************************************************************************)
DefaultSubjectTemplate ==
  << "I","n","t","e","r","a","c","t","i","o","n"," ","f","r","o","m"," ",
     "{","{","a","n","i","}","}"," ","t","o"," ","{","{","d","n","i","s","}","}" >>
DefaultCallIdField == << "i","n","t","e","r","a","c","t","i","o","n","_","i","d" >>
DefaultIdempotencyKey == << "i","n","t","e","r","a","c","t","i","o","n","I","d" >>

defaultValues ==
  [ mode |-> "feedback_only",
    crm |-> "hubspot",
    otherCrmName |-> Undefined,
    contactCenter |-> "ringcentral",
    otherContactCenterName |-> Undefined,
    agentWorkspace |-> "native_ccp_desktop",
    environment |-> "sandbox",
    direction |-> "inbound",
    voiceOnly |-> TRUE,
    crmActivityObjectType |-> "engagement",
    subjectTemplate |-> DefaultSubjectTemplate,
    associations |-> <<"contact">>,
    matchingStrategy |-> <<"ani_phone_match">>,
    phoneNormalization |-> "us_e164",
    externalIdField |-> Undefined,
    contextFields |-> <<"contact.fullName", "company.name", "contact.email", "stats.openDeals">>,
    customContextFields |-> Undefined,
    contextPlacement |-> "interaction_tab",
    ownerStrategy |-> "map_agent_email",
    fixedOwner |-> Undefined,
    storeCallId |-> TRUE,
    callIdField |-> DefaultCallIdField,
    expectedVolume |-> "100_1000",
    idempotencyKey |-> DefaultIdempotencyKey,
    latencyTarget |-> "under_2s",
    dataSensitivity |-> "pii",
    logging |-> "mask_pii" ]

(***************************************************************************)
(* IntakeSchema: the object schema.  An issue is fatal when zod aborts the *)
(* parse of the field (wrong type, value outside the enum) and not fatal   *)
(* when only a check of an otherwise well-typed value fails (min).         *)
(***************************************************************************)
Issue(path, message, fatal) == [path |-> path, message |-> message, fatal |-> fatal]

\* z.enum([...]) / z.literal(...)
ParseEnum(f, v) ==
  IF v \in EnumOf(f) THEN <<>> ELSE <<Issue(f, "invalid_enum_value", TRUE)>>

\* mutant: the text schema without .trim()
ParseTrimmed_NoTrim(v) == v

\* z.string().trim().optional() and z.string().trim(): the parsed value
ParseTrimmed(v) == IF v = Undefined THEN Undefined ELSE Trim(v)

\* z.string().trim(): a required string, no length check
ParseRequiredText(f, v) ==
  IF v = Undefined THEN <<Issue(f, "invalid_type", TRUE)>> ELSE <<>>

\* subjectTemplate: z.string().min(5, "Subject template is required"), not trimmed
ParseSubjectTemplate(v) ==
  IF v = Undefined THEN <<Issue("subjectTemplate", "invalid_type", TRUE)>>
  ELSE IF Len(v) < 5 THEN <<Issue("subjectTemplate", "Subject template is required", FALSE)>>
  ELSE <<>>

\* z.array(z.enum([...])).min(1, message): the element issues are reported
\* under the field (zod appends the element's index to the path)
ParseEnumArray(f, v, message) ==
  (IF \E i \in 1..Len(v) : v[i] \notin ElementEnumOf(f)
     THEN <<Issue(f, "invalid_enum_value", TRUE)>> ELSE <<>>)
  \o (IF Len(v) < 1 THEN <<Issue(f, message, FALSE)>> ELSE <<>>)

\* contextFields: z.array(z.string()).min(1, "Select at least one context field")
ParseContextFields(v) ==
  IF Len(v) < 1 THEN <<Issue("contextFields", "Select at least one context field", FALSE)>>
  ELSE <<>>

\* the issues of one field of the object schema
FieldIssues(f, v) ==
  CASE f \in EnumFields -> ParseEnum(f, v)
    [] f \in OptionalTextFields -> <<>>
    [] f \in RequiredTextFields -> ParseRequiredText(f, v)
    [] f \in BooleanFields -> <<>>
    [] f = "subjectTemplate" -> ParseSubjectTemplate(v)
    [] f = "associations" -> ParseEnumArray(f, v, "Select at least one association")
    [] f = "matchingStrategy" -> ParseEnumArray(f, v, "too_small")
    [] f = "contextFields" -> ParseContextFields(v)

\* the issues of the object schema, every field parsed, in declaration order
RECURSIVE ObjectIssuesFrom(_, _)
ObjectIssuesFrom(input, i) ==
  IF i > Len(FieldOrder) THEN <<>>
  ELSE FieldIssues(FieldOrder[i], input[FieldOrder[i]]) \o ObjectIssuesFrom(input, i + 1)

ObjectIssues(input) == ObjectIssuesFrom(input, 1)

\* the output value of the object schema: text fields trimmed, the rest as given
ObjectValue(input) ==
  [f \in FieldNames |->
     IF f \in OptionalTextFields \cup RequiredTextFields THEN ParseTrimmed(input[f])
     ELSE input[f]]

(***************************************************************************)
(* IntakeSchema.superRefine: the cross-field rules, run on the output      *)
(* value of the object schema.                                             *)
(***************************************************************************)
\* mutant: the rule tests for an absent name only, so "" slips through
RefineOtherCrmName_UndefinedOnly(val) ==
  IF val.crm = "other" /\ val.otherCrmName = Undefined
    THEN <<Issue("otherCrmName", "Please specify the CRM name", FALSE)>> ELSE <<>>

\* mutant: the negation of the rule is lost, a supplied name is rejected
RefineOtherCrmName_Inverted(val) ==
  IF val.crm = "other" /\ Truthy(val.otherCrmName)
    THEN <<Issue("otherCrmName", "Please specify the CRM name", FALSE)>> ELSE <<>>

\* CRM "other" requires a name
RefineOtherCrmName(val) ==
  IF val.crm = "other" /\ ~Truthy(val.otherCrmName)
    THEN <<Issue("otherCrmName", "Please specify the CRM name", FALSE)>> ELSE <<>>

\* mutant: the name of an "other" contact center is not required
RefineOtherContactCenterName_Skipped(val) == <<>>

\* Contact center "other" requires a name
RefineOtherContactCenterName(val) ==
  IF val.contactCenter = "other" /\ ~Truthy(val.otherContactCenterName)
    THEN <<Issue("otherContactCenterName", "Please specify the contact center name", FALSE)>>
    ELSE <<>>

\* If external_id strategy is selected, externalIdField is required
RefineExternalIdField(val) ==
  IF Includes(val.matchingStrategy, "external_id") /\ ~Truthy(val.externalIdField)
    THEN <<Issue("externalIdField",
                 "External ID field is required when using external ID matching", FALSE)>>
    ELSE <<>>

\* Owner fixed requires fixedOwner
RefineFixedOwner(val) ==
  IF val.ownerStrategy = "fixed_owner" /\ ~Truthy(val.fixedOwner)
    THEN <<Issue("fixedOwner", "Fixed owner is required when using fixed owner strategy", FALSE)>>
    ELSE <<>>

\* mutant: the regulated-logging rule is advisory only and raises no issue
RefineLogging_Advisory(val) == <<>>

\* Regulated -> enforce strict logging default
RefineLogging(val) ==
  IF val.dataSensitivity = "regulated" /\ val.logging # "no_payload_logging"
    THEN <<Issue("logging", "For regulated data, use 'No payload logging' (recommended).", FALSE)>>
    ELSE <<>>

superRefine(val) ==
  RefineOtherCrmName(val) \o RefineOtherContactCenterName(val)
    \o RefineExternalIdField(val) \o RefineFixedOwner(val) \o RefineLogging(val)

\* zod runs the refinement of an object only when no field aborted
Aborted(issues) == \E i \in 1..Len(issues) : issues[i].fatal

\* IntakeSchema.safeParse
safeParse(input) ==
  LET objectIssues == ObjectIssues(input)
      val == ObjectValue(input)
      issues == IF Aborted(objectIssues) THEN objectIssues
                ELSE objectIssues \o superRefine(val)
  IN  [success |-> issues = <<>>, data |-> val, issues |-> issues]

\* the fields the issues of a parse result are keyed to
ErrorKeys(result) == {result.issues[i].path : i \in 1..Len(result.issues)}

(***************************************************************************)
(* buildNormalizedIntake.                                                  *)
(***************************************************************************)
\* String.prototype.split(","): the segments between the commas, "" included
RECURSIVE Split(_)
Split(s) ==
  IF ~Includes(s, ",") THEN <<s>>
  ELSE LET i == CHOOSE k \in 1..Len(s) : s[k] = "," /\ \A j \in 1..(k - 1) : s[j] # ","
       IN  <<SubSeq(s, 1, i - 1)>> \o Split(SubSeq(s, i + 1, Len(s)))

\* .map((s) => s.trim())
RECURSIVE MapTrim(_)
MapTrim(segs) == IF segs = <<>> THEN <<>> ELSE <<Trim(Head(segs))>> \o MapTrim(Tail(segs))

\* .filter(Boolean)
RECURSIVE FilterBoolean(_)
FilterBoolean(segs) ==
  IF segs = <<>> THEN <<>>
  ELSE IF Head(segs) # <<>> THEN <<Head(segs)>> \o FilterBoolean(Tail(segs))
  ELSE FilterBoolean(Tail(segs))

\* mutant: the empty segments are not filtered out
customFields_NoFilter(input) ==
  MapTrim(Split(
    IF Truthy(input.customContextFields) THEN input.customContextFields ELSE <<>>))

\* (input.customContextFields || "").split(",").map(trim).filter(Boolean)
customFields(input) ==
  FilterBoolean(MapTrim(Split(
    IF Truthy(input.customContextFields) THEN input.customContextFields ELSE <<>>)))

\* the text a template literal `${x}` produces for a text-valued x
TemplateText(t) ==
  IF t = Undefined THEN <<"undefined">> ELSE IF t = Null THEN <<"null">> ELSE t

EventSuffix == <<".interaction.accepted">>

\* mutant: the companion name is never consulted
contactCenterName_EnumOnly(input) == <<input.contactCenter>>

contactCenterName(input) ==
  IF input.contactCenter = "other" THEN input.otherContactCenterName
  ELSE <<input.contactCenter>>

interactionType(input) == IF input.voiceOnly THEN "voice" ELSE "generic"

eventType(input) == TemplateText(contactCenterName(input)) \o EventSuffix

BuildSystems(input) ==
  [ crm |-> input.crm,
    otherCrmName |-> IF input.crm = "other" THEN Coalesce(input.otherCrmName, Null) ELSE Null,
    contactCenter |-> input.contactCenter,
    otherContactCenterName |->
      IF input.contactCenter = "other" THEN Coalesce(input.otherContactCenterName, Null)
      ELSE Null,
    agentWorkspace |-> input.agentWorkspace,
    environment |-> input.environment ]

BuildTrigger(input) ==
  [ event |-> eventType(input),
    interactionType |-> interactionType(input),
    direction |-> input.direction ]

BuildCrmActivity(input) ==
  [ objectType |-> input.crmActivityObjectType,
    subjectTemplate |-> input.subjectTemplate,
    associations |-> input.associations ]

BuildMatching(input) ==
  [ strategy |-> input.matchingStrategy,
    phoneNormalization |-> input.phoneNormalization,
    externalIdField |->
      IF Includes(input.matchingStrategy, "external_id")
        THEN Coalesce(input.externalIdField, Null) ELSE Null ]

BuildContextInjection(input) ==
  [ fields |-> input.contextFields,
    customFields |-> customFields(input),
    placement |-> input.contextPlacement ]

\* mutant: fixedOwner is copied whatever the owner strategy is
BuildOwnership_StaleFixedOwner(input) ==
  [ ownerStrategy |-> input.ownerStrategy,
    fixedOwner |-> Coalesce(input.fixedOwner, Null),
    storeInteractionId |-> input.storeCallId,
    interactionIdField |-> IF input.storeCallId THEN input.callIdField ELSE Null ]

BuildOwnership(input) ==
  [ ownerStrategy |-> input.ownerStrategy,
    fixedOwner |->
      IF input.ownerStrategy = "fixed_owner" THEN Coalesce(input.fixedOwner, Null) ELSE Null,
    storeInteractionId |-> input.storeCallId,
    interactionIdField |-> IF input.storeCallId THEN input.callIdField ELSE Null ]

BuildReliability(input) ==
  [ expectedVolume |-> input.expectedVolume,
    idempotencyKey |-> input.idempotencyKey,
    latencyTarget |-> input.latencyTarget ]

BuildSecurity(input) ==
  [ dataSensitivity |-> input.dataSensitivity,
    logging |-> input.logging ]

\* the warning texts (the dash of the source is written "-")
WarnEnvironment == "Evaluation-only: environment must be sandbox/demo."
WarnAgentWorkspace ==
  "Agent workspace not determined - context injection placement may vary by platform."
WarnRegulated == "Regulated data indicated - security review required before production use."

\* mutant: the warnings are an else-if chain, at most one is pushed
BuildWarnings_ElseIf(systems, security) ==
  IF systems.environment # "sandbox" /\ systems.environment # "demo"
    THEN <<WarnEnvironment>>
  ELSE IF systems.agentWorkspace = "unknown" THEN <<WarnAgentWorkspace>>
  ELSE IF security.dataSensitivity = "regulated" THEN <<WarnRegulated>>
  ELSE <<>>

\* mutant: the review warning is pushed for every sensitivity above "low"
BuildWarnings_AnySensitive(systems, security) ==
  (IF systems.environment # "sandbox" /\ systems.environment # "demo"
     THEN <<WarnEnvironment>> ELSE <<>>)
  \o (IF systems.agentWorkspace = "unknown" THEN <<WarnAgentWorkspace>> ELSE <<>>)
  \o (IF security.dataSensitivity # "low" THEN <<WarnRegulated>> ELSE <<>>)

\* Non-blocking warnings, pushed in this order onto a fresh list
BuildWarnings(systems, security) ==
  (IF systems.environment # "sandbox" /\ systems.environment # "demo"
     THEN <<WarnEnvironment>> ELSE <<>>)
  \o (IF systems.agentWorkspace = "unknown" THEN <<WarnAgentWorkspace>> ELSE <<>>)
  \o (IF security.dataSensitivity = "regulated" THEN <<WarnRegulated>> ELSE <<>>)

buildNormalizedIntake(input) ==
  [ version |-> "v1",
    mode |-> input.mode,
    systems |-> BuildSystems(input),
    trigger |-> BuildTrigger(input),
    crmActivity |-> BuildCrmActivity(input),
    matching |-> BuildMatching(input),
    contextInjection |-> BuildContextInjection(input),
    ownership |-> BuildOwnership(input),
    reliability |-> BuildReliability(input),
    security |-> BuildSecurity(input),
    warnings |-> BuildWarnings(BuildSystems(input), BuildSecurity(input)) ]

(***************************************************************************)
(* The helpers of the blueprint page (src/app/blueprint/[id]/page.tsx).     *)
(* A value read from the stored document is a record: type is "undefined",  *)
(* "null", "string" (text holds its tokens) or "array" (items holds its     *)
(* elements, each a one-token string).  A helper is called on arguments     *)
(* drawn from these values, and returns one.                                *)
(***************************************************************************)
\* longest list of candidates passed to pickFirst
MaxCandidates == 4
\* longest array passed to a helper
MaxItems == 2

JsUndefined == [type |-> "undefined", text |-> <<>>, items |-> <<>>]
JsNull == [type |-> "null", text |-> <<>>, items |-> <<>>]
JsString(t) == [type |-> "string", text |-> t, items |-> <<>>]
JsArray(items) == [type |-> "array", text |-> <<>>, items |-> items]

\* the helper has not returned yet
NotReturned == [type |-> "pending", text |-> <<>>, items |-> <<>>]

NoCall == [fn |-> "none", args |-> <<>>]

NoHelperCalled == call = NoCall /\ returned = NotReturned

\* all sequences over S of length at most n
RECURSIVE SeqsUpTo(_, _)
SeqsUpTo(S, n) ==
  IF n = 0 THEN {<<>>}
  ELSE LET T == SeqsUpTo(S, n - 1)
       IN  T \cup {Append(t, x) : t \in T, x \in S}

\* !v
JsFalsy(v) == v.type \in {"undefined", "null"} \/ (v.type = "string" /\ v.text = <<>>)

\* Array.prototype.join(sep) on one-token strings
RECURSIVE Join(_, _)
Join(items, sep) ==
  IF items = <<>> THEN <<>>
  ELSE IF Len(items) = 1 THEN <<items[1]>>
  ELSE <<items[1], sep>> \o Join(Tail(items), sep)

\* mutant: the empty string is taken as a value
Qualifies_AcceptsEmpty(v) == v # JsUndefined /\ v # JsNull

\* v !== undefined && v !== null && v !== ""
Qualifies(v) == v # JsUndefined /\ v # JsNull /\ v # JsString(<<>>)

\* function pickFirst(...values): for (const v of values) ...; return undefined
RECURSIVE pickFirst(_)
pickFirst(candidates) ==
  IF candidates = <<>> THEN JsUndefined
  ELSE IF Qualifies(Head(candidates)) THEN Head(candidates)
  ELSE pickFirst(Tail(candidates))

\* function formatValue(value), on the values above
formatValue(value) ==
  IF value = JsNull \/ value = JsUndefined THEN <<"N/A">>
  ELSE IF value.type = "array"
    THEN (IF Len(value.items) # 0 THEN Join(value.items, ", ") ELSE <<"N/A">>)
  ELSE value.text

toMatchingLabel(value) ==
  CASE value = "ani_phone_match" -> "Match by customer phone number"
    [] value = "external_id" -> "Match by external customer ID"
    [] OTHER -> value

\* mutant: only !strategy is tested, the empty array is not
toCustomerMatchingLine_NoEmptyCheck(strategy) ==
  IF JsFalsy(strategy) THEN <<"Not specified">>
  ELSE LET vals == IF strategy.type = "array" THEN strategy.items ELSE <<strategy.text[1]>>
           hasPhone == Includes(vals, "ani_phone_match")
           hasExternal == Includes(vals, "external_id")
       IN  IF hasPhone /\ hasExternal
             THEN <<"Phone number and external customer ID -> CRM contact">>
           ELSE IF hasExternal THEN <<"External customer ID -> CRM contact">>
           ELSE IF hasPhone THEN <<"Phone number -> CRM contact">>
           ELSE Join([i \in 1..Len(vals) |-> toMatchingLabel(vals[i])], ", ")

\* function toCustomerMatchingLine(strategy); a string strategy is one token
toCustomerMatchingLine(strategy) ==
  IF JsFalsy(strategy) \/ (strategy.type = "array" /\ Len(strategy.items) = 0)
    THEN <<"Not specified">>
  ELSE LET vals == IF strategy.type = "array" THEN strategy.items ELSE <<strategy.text[1]>>
           hasPhone == Includes(vals, "ani_phone_match")
           hasExternal == Includes(vals, "external_id")
       IN  IF hasPhone /\ hasExternal
             THEN <<"Phone number and external customer ID -> CRM contact">>
           ELSE IF hasExternal THEN <<"External customer ID -> CRM contact">>
           ELSE IF hasPhone THEN <<"Phone number -> CRM contact">>
           ELSE Join([i \in 1..Len(vals) |-> toMatchingLabel(vals[i])], ", ")

\* ownership.interactionIdField (useMemo), from data.ownership.interactionIdField,
\* data.ownership.callIdField, data.interactionIdField, data.callIdField
ownershipInteractionIdField(fields) == pickFirst(SubSeq(fields, 2, 5))

\* duplicatePreventionKey (useMemo): fields[1] is data.reliability.idempotencyKey
duplicatePreventionKey(fields) ==
  pickFirst(<<fields[1], ownershipInteractionIdField(fields)>>)

\* the "Duplicate prevention" line of the summary
duplicatePreventionLine(fields) ==
  IF ~JsFalsy(duplicatePreventionKey(fields))
    THEN duplicatePreventionKey(fields).text
           \o <<" -> intended to avoid double-logging the same interaction">>
    ELSE <<"Not specified">>

\* a template literal's ${value} for a string value: its characters
RECURSIVE Interpolate(_)
Interpolate(text) == IF text = <<>> THEN "" ELSE Head(text) \o Interpolate(Tail(text))

\* function toOwnerStrategyLabel(value)
toOwnerStrategyLabel(value) ==
  CASE value = "map_agent_email" -> "Assign to the agent who handled the interaction"
    [] value = "fixed_owner" -> "Always assign to a fixed CRM owner or queue"
    [] value = "unassigned" -> "Leave CRM activity unassigned"
    [] OTHER -> value

\* ownership.ownerStrategy (useMemo), from data.ownership.ownerStrategy and
\* data.ownerStrategy
ownershipOwnerStrategy(nested, flat) == pickFirst(<<nested, flat>>)

\* mutant: the logging sentence comes before the high-volume sentence
operationalGuarantees_LoggingFirst(fields) ==
  LET idempotencyKey == fields[1]
      event == fields[2]
      latencyTarget == fields[3]
      expectedVolume == fields[4]
      logging == fields[5]
      ownerStrategy == ownershipOwnerStrategy(fields[6], fields[7])
      target == IF ~JsFalsy(latencyTarget)
                  THEN " (target: " \o Interpolate(latencyTarget.text) \o ")"
                  ELSE ""
  IN  (IF ~JsFalsy(idempotencyKey)
         THEN <<"Uses duplicate prevention key " \o Interpolate(idempotencyKey.text)
                  \o " to avoid double-logging the same interaction">>
         ELSE <<>>)
      \o (IF ~JsFalsy(event) \/ ~JsFalsy(latencyTarget)
            THEN <<"Agent context appears on interaction acceptance" \o target>>
            ELSE <<>>)
      \o (IF logging = JsString(<<"mask_pii">>) THEN <<"PII is masked in logs">>
          ELSE IF logging = JsString(<<"no_payload_logging">>) THEN <<"No payload logging">>
          ELSE <<>>)
      \o (IF \/ expectedVolume = JsString(<<"100_1000">>)
             \/ expectedVolume = JsString(<<"1000_10000">>)
             \/ expectedVolume = JsString(<<"gt_10000">>)
             \/ latencyTarget = JsString(<<"under_2s">>)
             \/ latencyTarget = JsString(<<"under_500ms">>)
            THEN <<"Built for higher volume with asynchronous processing and retry-safe behavior">>
            ELSE <<>>)
      \o (IF ~JsFalsy(ownerStrategy)
            THEN <<toOwnerStrategyLabel(Interpolate(ownerStrategy.text))>>
            ELSE <<>>)

\* operationalGuarantees (useMemo): fields holds data.reliability.idempotencyKey,
\* data.trigger.event, data.reliability.latencyTarget,
\* data.reliability.expectedVolume, data.security.logging,
\* data.ownership.ownerStrategy and data.ownerStrategy
operationalGuarantees(fields) ==
  LET idempotencyKey == fields[1]
      event == fields[2]
      latencyTarget == fields[3]
      expectedVolume == fields[4]
      logging == fields[5]
      ownerStrategy == ownershipOwnerStrategy(fields[6], fields[7])
      target == IF ~JsFalsy(latencyTarget)
                  THEN " (target: " \o Interpolate(latencyTarget.text) \o ")"
                  ELSE ""
  IN  (IF ~JsFalsy(idempotencyKey)
         THEN <<"Uses duplicate prevention key " \o Interpolate(idempotencyKey.text)
                  \o " to avoid double-logging the same interaction">>
         ELSE <<>>)
      \o (IF ~JsFalsy(event) \/ ~JsFalsy(latencyTarget)
            THEN <<"Agent context appears on interaction acceptance" \o target>>
            ELSE <<>>)
      \o (IF \/ expectedVolume = JsString(<<"100_1000">>)
             \/ expectedVolume = JsString(<<"1000_10000">>)
             \/ expectedVolume = JsString(<<"gt_10000">>)
             \/ latencyTarget = JsString(<<"under_2s">>)
             \/ latencyTarget = JsString(<<"under_500ms">>)
            THEN <<"Built for higher volume with asynchronous processing and retry-safe behavior">>
            ELSE <<>>)
      \o (IF logging = JsString(<<"mask_pii">>) THEN <<"PII is masked in logs">>
          ELSE IF logging = JsString(<<"no_payload_logging">>) THEN <<"No payload logging">>
          ELSE <<>>)
      \o (IF ~JsFalsy(ownerStrategy)
            THEN <<toOwnerStrategyLabel(Interpolate(ownerStrategy.text))>>
            ELSE <<>>)

\* the values a field of the stored document is read as
FieldReads == {JsUndefined, JsNull, JsString(<<>>), JsString(<<"a">>), JsString(<<"b">>)}

StrategyReads ==
  {JsUndefined, JsNull, JsString(<<>>), JsString(<<"ani_phone_match">>),
   JsString(<<"external_id">>), JsString(<<"custom">>)}
  \cup {JsArray(a) : a \in SeqsUpTo({"ani_phone_match", "external_id", "custom"}, MaxItems)}

ValueReads ==
  FieldReads \cup {JsArray(a) : a \in SeqsUpTo({"contact", "deal"}, MaxItems)}

\* the values the fields of the operational guarantees are read as: absent,
\* empty, the values the form offers, and one it does not offer
IdempotencyKeyReads == {JsUndefined, JsString(<<>>), JsString(<<"a">>)}

EventReads == {JsUndefined, JsString(<<>>), JsString(<<"genesys", ".interaction.accepted">>)}

LatencyReads ==
  {JsUndefined, JsString(<<>>)} \cup {JsString(<<l>>) : l \in LATENCY_ENUM}

VolumeReads == {JsUndefined} \cup {JsString(<<v>>) : v \in VOLUME_ENUM}

LoggingReads ==
  {JsUndefined, JsString(<<"full">>)} \cup {JsString(<<l>>) : l \in LOGGING_ENUM}

OwnerStrategyReads ==
  {JsUndefined, JsString(<<>>), JsString(<<"round_robin">>)}
  \cup {JsString(<<o>>) : o \in OWNER_STRATEGY_ENUM}

HelperCalls ==
  {[fn |-> "pickFirst", args |-> a] : a \in SeqsUpTo(FieldReads, MaxCandidates)}
  \cup {[fn |-> "toCustomerMatchingLine", args |-> <<s>>] : s \in StrategyReads}
  \cup {[fn |-> "formatValue", args |-> <<v>>] : v \in ValueReads}
  \cup {[fn |-> "duplicatePreventionLine", args |-> a] :
          a \in [1..5 -> {JsUndefined, JsNull, JsString(<<>>), JsString(<<"a">>)}]}
  \cup {[fn |-> "operationalGuarantees", args |-> <<k, e, l, v, g, o, f>>] :
          k \in IdempotencyKeyReads, e \in EventReads, l \in LatencyReads,
          v \in VolumeReads, g \in LoggingReads, o \in OwnerStrategyReads,
          f \in {JsUndefined, JsString(<<"unassigned">>)}}

(***************************************************************************)
(* The state machine.  A candidate RawIntake is the form state: it starts  *)
(* as the defaultValues and is changed one field at a time; the preview    *)
(* (useMemo) parses it and, when the parse succeeds, normalizes it.        *)
(* normalized is <<>> for null and <<document>> otherwise.                 *)
(***************************************************************************)
NoParse == [success |-> FALSE, data |-> defaultValues, issues |-> <<>>]

\* the values a field of a candidate is drawn from
FieldValues(f) ==
  CASE f \in EnumFields -> EnumOf(f) \cup {Bogus}
    [] f \in OptionalTextFields -> {Undefined} \cup TextsOver(Chars, MaxStrLen)
    [] f \in RequiredTextFields -> {Undefined} \cup TextsOver(Chars, MaxStrLen)
    [] f \in BooleanFields -> BOOLEAN
    [] f = "subjectTemplate" ->
         {Undefined} \cup {Repeat("s", n) : n \in 0..MaxSubjectLen}
                     \cup {Repeat(" ", n) : n \in 0..MaxSubjectLen}
    [] f = "associations" ->
         {<<>>, <<"contact">>, <<"company">>, <<"contact", "deal">>,
          <<"contact", "company", "deal">>}
    [] f = "matchingStrategy" ->
         {<<>>, <<"ani_phone_match">>, <<"external_id">>,
          <<"ani_phone_match", "external_id">>, <<"external_id", "ani_phone_match">>}
    [] f = "contextFields" ->
         {<<>>, <<"contact.phone">>,
          <<"contact.fullName", "company.name", "contact.email", "stats.openDeals">>}

(***************************************************************************)
(* The submit flow of Page (onSubmit), the intake route (POST) and the      *)
(* browser's localStorage.  A stored string is a record: kind "none" is the *)
(* null that getItem returns for an absent key, kind "json" is the output   *)
(* of JSON.stringify (doc holds the serialised document, indent the         *)
(* indentation argument), kind "text" is any other string (text holds its   *)
(* characters).                                                             *)
(***************************************************************************)
\* number of submissions of the form
MaxSubmits == 2
\* number of changes the user makes to the inputs of the wizard
MaxFormEdits == 1

\* steps.length - 1
LastStep == 8

\* steps[i].fields, indexed from 1
steps ==
  << {"crm", "otherCrmName", "contactCenter", "otherContactCenterName",
      "agentWorkspace", "environment"},
     {"direction", "voiceOnly"},
     {"crmActivityObjectType", "subjectTemplate", "associations"},
     {"matchingStrategy", "phoneNormalization", "externalIdField"},
     {"contextFields", "customContextFields", "contextPlacement"},
     {"ownerStrategy", "fixedOwner", "storeCallId", "callIdField"},
     {"expectedVolume", "idempotencyKey", "latencyTarget"},
     {"dataSensitivity", "logging"},
     {} >>

\* the identifiers crypto.randomUUID() returns: the k-th call returns Uuid(k),
\* no identifier is returned twice
Uuid(k) == ToString(k)

Uuids == {Uuid(k) : k \in 1..MaxSubmits}

\* an identifier of a URL that no submission generated
UnknownId == "unknown"

UrlIds == Uuids \cup {UnknownId}

KeyIntake == <<"micro_si_intake_v1">>
KeyLast == <<"micro_si_last_blueprint_id">>

\* `micro_si_blueprint_${id}`
BlueprintKey(id) == <<"micro_si_blueprint_", id>>

\* `/blueprint/${id}`
BlueprintUrl(id) == <<"/blueprint/", id>>

Keys == {KeyIntake, KeyLast} \cup {BlueprintKey(id) : id \in UrlIds}

\* a property JSON.stringify left out because its value was undefined
Absent == <<"<absent>">>

\* mutant: properties holding null are dropped like those holding undefined
JsonLeaf_DropsNull(t) == IF t \in {Undefined, Null} THEN Absent ELSE t

JsonLeaf(t) == IF t = Undefined THEN Absent ELSE t

\* the JSON value of a blueprint: properties holding undefined are dropped,
\* null, strings, booleans and arrays are kept
JsonValue(doc) ==
  [doc EXCEPT !.systems.otherCrmName = JsonLeaf(@),
              !.systems.otherContactCenterName = JsonLeaf(@),
              !.trigger.event = JsonLeaf(@),
              !.crmActivity.subjectTemplate = JsonLeaf(@),
              !.matching.externalIdField = JsonLeaf(@),
              !.ownership.fixedOwner = JsonLeaf(@),
              !.ownership.interactionIdField = JsonLeaf(@),
              !.reliability.idempotencyKey = JsonLeaf(@)]

NoItem == [kind |-> "none", text |-> <<>>, indent |-> 0, doc |-> <<>>]

PlainText(t) == [kind |-> "text", text |-> t, indent |-> 0, doc |-> <<>>]

\* JSON.stringify(value, null, indent)
JsonStringify(value, indent) ==
  [kind |-> "json", text |-> <<>>, indent |-> indent, doc |-> <<JsonValue(value)>>]

\* JSON.parse(raw): value is <<>> for null and <<document>> otherwise
JsonParse(raw) ==
  IF raw.kind = "json" THEN [threw |-> FALSE, value |-> raw.doc]
  ELSE IF raw.kind = "text" /\ raw.text = <<"n", "u", "l", "l">>
    THEN [threw |-> FALSE, value |-> <<>>]
  ELSE [threw |-> TRUE, value |-> <<>>]

\* !raw
Falsy(raw) == raw.kind = "none" \/ (raw.kind = "text" /\ raw.text = <<>>)

getItem(storage, key) == storage[key]

setItem(storage, key, value) == [storage EXCEPT ![key] = value]

EmptyStorage == [k \in Keys |-> NoItem]

\* the answer fetch() gave to one request
NoResponse == [kind |-> "none", status |-> 0, ok |-> FALSE, message |-> "", error |-> ""]

\* fetch() rejected: the request never reached the route
NetworkError == [NoResponse EXCEPT !.kind = "network_error"]

\* NextResponse.json({ok, message}) / NextResponse.json({ok, error}, {status})
JsonResponse(status, ok, message, error) ==
  [kind |-> "json", status |-> status, ok |-> ok, message |-> message, error |-> error]

\* what resend.emails.send did: it resolved with data (the message was
\* accepted), it resolved with an error object (the message was rejected or
\* could not be sent), or it threw an Error with the given message
SendOutcomes == {"delivered", "resolved_error", "threw"}

SendErrorMessage(outcome) == IF outcome = "threw" THEN "Resend request failed" ELSE ""

\* x || fallback on strings
OrElse(x, fallback) == IF x = "" THEN fallback ELSE x

\* export async function POST(req): the environment has or lacks each
\* variable, outcome is what resend.emails.send does if it is called
POST(processEnv, outcome) ==
  IF ~processEnv.RESEND_API_KEY
    THEN [send |-> "none", response |-> JsonResponse(500, FALSE, "", "Missing RESEND_API_KEY")]
  ELSE IF ~processEnv.INTAKE_RECEIVER_EMAIL
    THEN [send |-> "none",
          response |-> JsonResponse(500, FALSE, "", "Missing INTAKE_RECEIVER_EMAIL")]
  ELSE IF outcome = "threw"
    THEN [send |-> outcome,
          response |-> JsonResponse(500, FALSE, "",
                         OrElse(SendErrorMessage(outcome), "Failed to send intake email"))]
  ELSE [send |-> outcome,
        response |-> JsonResponse(200, TRUE, "Thanks - intake received.", "")]

\* the state of the submit flow before anything happened: Page is mounted at
\* "/" with its useState initial values, nothing is stored, nothing was sent
AppIdle ==
  /\ step = 0
  /\ submitState = "idle"
  /\ serverMsg = ""
  /\ localStorage = EmptyStorage
  /\ requests = <<>>
  /\ env = [RESEND_API_KEY |-> TRUE, INTAKE_RECEIVER_EMAIL |-> TRUE]
  /\ location = <<"/">>
  /\ data = <<>>
  /\ missing = FALSE
  /\ effect = "none"
  /\ pushed = <<>>

Init ==
  /\ values = defaultValues
  /\ edits = 0
  /\ pc = "editing"
  /\ parsed = NoParse
  /\ normalized = <<>>
  /\ AppIdle
  /\ NoHelperCalled

\* form.register(f) onChange / form.setValue(f, v)
SetValue(f, v) ==
  /\ pc = "editing"
  /\ edits < MaxEdits
  /\ v # values[f]
  /\ values' = [values EXCEPT ![f] = v]
  /\ edits' = edits + 1
  /\ UNCHANGED <<pc, parsed, normalized>>
  /\ UNCHANGED appVars
  /\ UNCHANGED helperVars

\* const normalized = useMemo(() => { parsed = safeParse(values); ... }, [values])
Preview ==
  /\ pc = "editing"
  /\ parsed' = safeParse(values)
  /\ normalized' = IF parsed'.success THEN <<buildNormalizedIntake(parsed'.data)>> ELSE <<>>
  /\ pc' = "rendered"
  /\ UNCHANGED <<values, edits>>
  /\ UNCHANGED appVars
  /\ UNCHANGED helperVars

Next ==
  \/ \E f \in FieldNames : \E v \in FieldValues(f) : SetValue(f, v)
  \/ Preview

Spec == Init /\ [][Next]_vars

(***************************************************************************)
(* The custom-context-fields pipeline: the candidate is the defaultValues  *)
(* with a customContextFields text (or none), and the preview runs on it.  *)
(***************************************************************************)
\* the example of the specification: " a, ,b ,"
ExampleCustomContextFields == <<" ", "a", ",", " ", ",", "b", " ", ",">>

CustomTexts == TextsOver(CustomChars, MaxCustomLen) \cup {ExampleCustomContextFields}

InitCustom ==
  /\ \E t \in {Undefined} \cup CustomTexts :
       values = [defaultValues EXCEPT !.customContextFields = t]
  /\ edits = 0
  /\ pc = "editing"
  /\ parsed = NoParse
  /\ normalized = <<>>
  /\ AppIdle
  /\ NoHelperCalled

NextCustom == Preview

SpecCustom == InitCustom /\ [][NextCustom]_vars

(***************************************************************************)
(* The warnings pipeline: the candidate is the defaultValues with every    *)
(* combination of the four fields the warnings and the logging rule read.  *)
(***************************************************************************)
InitWarnings ==
  /\ \E w \in FieldValues("agentWorkspace"), e \in FieldValues("environment"),
        d \in FieldValues("dataSensitivity"), l \in FieldValues("logging") :
       values = [defaultValues EXCEPT !.agentWorkspace = w, !.environment = e,
                                      !.dataSensitivity = d, !.logging = l]
  /\ edits = 0
  /\ pc = "editing"
  /\ parsed = NoParse
  /\ normalized = <<>>
  /\ AppIdle
  /\ NoHelperCalled

NextWarnings == Preview

SpecWarnings == InitWarnings /\ [][NextWarnings]_vars

(***************************************************************************)
(* The wizard, the submission and the blueprint page as one state machine.  *)
(* location is the URL shown: <<"/">> is the intake page (Page), and         *)
(* BlueprintUrl(id) is the blueprint page (BlueprintPage) with params.id =  *)
(* id.  requests holds one record per fetch("/api/intake") made: the        *)
(* payload of the onSubmit call that made it, the body sent, what the       *)
(* route did with it and the answer.  data is <<>> for null.  pushed is the *)
(* URL given to router.push while the navigation has not completed, <<>>    *)
(* otherwise.                                                               *)
(***************************************************************************)
\* the fields the user edits in this state machine and the values typed
FormFields == {"crm", "otherCrmName"}

FormValues(f) ==
  CASE f = "crm" -> {"hubspot", "salesforce", "other"}
    [] f = "otherCrmName" -> {<<>>, <<"a">>}

OnIntakePage == location = <<"/">>

OnBlueprintPage == Len(location) = 2 /\ location[1] = "/blueprint/"

\* const { id } = use(params)
ParamsId == location[2]

PreviewOf(v) ==
  IF safeParse(v).success THEN <<buildNormalizedIntake(safeParse(v).data)>> ELSE <<>>

InitSubmit ==
  /\ values = defaultValues
  /\ edits = 0
  /\ pc = "rendered"
  /\ parsed = safeParse(defaultValues)
  /\ normalized = PreviewOf(defaultValues)
  /\ step = 0
  /\ submitState = "idle"
  /\ serverMsg = ""
  /\ localStorage = EmptyStorage
  /\ requests = <<>>
  /\ env \in [RESEND_API_KEY : BOOLEAN, INTAKE_RECEIVER_EMAIL : BOOLEAN]
  /\ location = <<"/">>
  /\ data = <<>>
  /\ missing = FALSE
  /\ effect = "none"
  /\ pushed = <<>>
  /\ NoHelperCalled

\* an input of the current step changes; the preview (useMemo) follows
Change(f, v) ==
  /\ OnIntakePage
  /\ f \in steps[step + 1]
  /\ edits < MaxFormEdits
  /\ v # values[f]
  /\ values' = [values EXCEPT ![f] = v]
  /\ edits' = edits + 1
  /\ parsed' = safeParse(values')
  /\ normalized' = PreviewOf(values')
  /\ UNCHANGED <<pc, step, submitState, serverMsg>>
  /\ UNCHANGED <<localStorage, requests, env, location, data, missing, effect>>
  /\ UNCHANGED <<pushed, helperVars>>

\* async function next(): form.trigger(current.fields) reports the issues of
\* the whole schema that sit on the current step's fields
next ==
  /\ OnIntakePage
  /\ step < LastStep
  /\ step' = IF ErrorKeys(parsed) \cap steps[step + 1] = {}
               THEN (IF step + 1 < LastStep THEN step + 1 ELSE LastStep)
               ELSE step
  /\ UNCHANGED <<values, edits, pc, parsed, normalized, submitState, serverMsg>>
  /\ UNCHANGED <<localStorage, requests, env, location, data, missing, effect>>
  /\ UNCHANGED <<pushed, helperVars>>

\* function back(); the button is disabled at step 0
back ==
  /\ OnIntakePage
  /\ step # 0
  /\ step' = (IF step - 1 > 0 THEN step - 1 ELSE 0)
  /\ UNCHANGED <<values, edits, pc, parsed, normalized, submitState, serverMsg>>
  /\ UNCHANGED <<localStorage, requests, env, location, data, missing, effect>>
  /\ UNCHANGED <<pushed, helperVars>>

NewRequest(payload) ==
  [ payload |-> payload,
    body |-> JsonStringify(payload, 0),
    phase |-> "pending",
    send |-> "none",
    response |-> NoResponse,
    id |-> "" ]

\* the record of a fetch whose onSubmit call has returned, as kept once a
\* later submission starts: only the identifier it generated
Forget(r) ==
  IF r.phase = "settled"
    THEN [NewRequest(buildNormalizedIntake(defaultValues)) EXCEPT
            !.phase = "forgotten", !.id = r.id]
    ELSE r

\* mutant: a submit that fails validation is reported as an error
onSubmit_ReportsInvalid ==
  /\ OnIntakePage
  /\ step = LastStep
  /\ submitState # "submitting"
  /\ Len(requests) < MaxSubmits
  /\ LET result == parsed
         payload == buildNormalizedIntake(result.data)
     IN  IF ~result.success
           THEN /\ step' = 0
                /\ submitState' = "error"
                /\ serverMsg' = "Invalid intake"
                /\ UNCHANGED <<localStorage, requests>>
           ELSE /\ localStorage' = setItem(localStorage, KeyIntake, JsonStringify(payload, 2))
                /\ submitState' = "submitting"
                /\ serverMsg' = ""
                /\ requests' = Append([i \in 1..Len(requests) |-> Forget(requests[i])],
                                       NewRequest(payload))
                /\ UNCHANGED step
  /\ UNCHANGED <<values, edits, pc, parsed, normalized>>
  /\ UNCHANGED <<env, location, data, missing, effect>>
  /\ UNCHANGED <<pushed, helperVars>>

\* mutant: the "Submit intake" button stays enabled while submitting
onSubmit_NotDisabled ==
  /\ OnIntakePage
  /\ step = LastStep
  /\ Len(requests) < MaxSubmits
  /\ LET result == parsed
         payload == buildNormalizedIntake(result.data)
     IN  IF ~result.success
           THEN /\ step' = 0
                /\ UNCHANGED <<localStorage, submitState, serverMsg, requests>>
           ELSE /\ localStorage' = setItem(localStorage, KeyIntake, JsonStringify(payload, 2))
                /\ submitState' = "submitting"
                /\ serverMsg' = ""
                /\ requests' = Append([i \in 1..Len(requests) |-> Forget(requests[i])],
                                       NewRequest(payload))
                /\ UNCHANGED step
  /\ UNCHANGED <<values, edits, pc, parsed, normalized>>
  /\ UNCHANGED <<env, location, data, missing, effect>>
  /\ UNCHANGED <<pushed, helperVars>>

\* async function onSubmit(), up to "await fetch(...)": the "Submit intake"
\* button of the last step is clicked (it is disabled while submitting)
\* IntakeSchema.safeParse(form.getValues()) is the parse of the current
\* values, which Change keeps in parsed.
onSubmit ==
  /\ OnIntakePage
  /\ step = LastStep
  /\ submitState # "submitting"
  /\ Len(requests) < MaxSubmits
  /\ LET result == parsed
         payload == buildNormalizedIntake(result.data)
     IN  IF ~result.success
           THEN /\ step' = 0
                /\ UNCHANGED <<localStorage, submitState, serverMsg, requests>>
           ELSE /\ localStorage' = setItem(localStorage, KeyIntake, JsonStringify(payload, 2))
                /\ submitState' = "submitting"
                /\ serverMsg' = ""
                /\ requests' = Append([i \in 1..Len(requests) |-> Forget(requests[i])],
                                       NewRequest(payload))
                /\ UNCHANGED step
  /\ UNCHANGED <<values, edits, pc, parsed, normalized>>
  /\ UNCHANGED <<env, location, data, missing, effect>>
  /\ UNCHANGED <<pushed, helperVars>>

\* the request reaches the route, which answers it
RoutePOST(i, outcome) ==
  /\ requests[i].phase = "pending"
  /\ LET r == POST(env, outcome)
     IN  requests' = [requests EXCEPT ![i].phase = "answered",
                                      ![i].send = r.send,
                                      ![i].response = r.response]
  /\ UNCHANGED <<values, edits, pc, parsed, normalized, step, submitState, serverMsg>>
  /\ UNCHANGED <<localStorage, env, location, data, missing, effect>>
  /\ UNCHANGED <<pushed, helperVars>>

\* the request fails on the way: fetch rejects
TransportFailure(i) ==
  /\ requests[i].phase = "pending"
  /\ requests' = [requests EXCEPT ![i].phase = "answered", ![i].response = NetworkError]
  /\ UNCHANGED <<values, edits, pc, parsed, normalized, step, submitState, serverMsg>>
  /\ UNCHANGED <<localStorage, env, location, data, missing, effect>>
  /\ UNCHANGED <<pushed, helperVars>>

\* the message of the Error that reaches the catch block of onSubmit
CaughtMessage(response) ==
  IF response.kind = "network_error" THEN "Failed to fetch"
  ELSE OrElse(response.error, "Request failed")

\* mutant: every answer of the route counts as OK, whatever its status
ResOk_AnyStatus(response) == response.kind = "json"

\* res.ok: the status is in the range 200-299
ResOk(response) == response.kind = "json" /\ response.status >= 200 /\ response.status <= 299

\* mutant: the catch block removes the blueprint stored before the transmission
onSubmitSettled_RollsBack(i) ==
  /\ requests[i].phase = "answered"
  /\ LET res == requests[i].response
         payload == requests[i].payload
         id == Uuid(Cardinality({j \in 1..Len(requests) : requests[j].id # ""}) + 1)
     IN  IF ResOk(res)
           THEN /\ localStorage' =
                     setItem(setItem(localStorage, BlueprintKey(id), JsonStringify(payload, 2)),
                             KeyLast, PlainText(<<id>>))
                /\ requests' = [requests EXCEPT ![i].phase = "settled", ![i].id = id]
                /\ IF OnIntakePage
                     THEN /\ submitState' = "done"
                          /\ serverMsg' = OrElse(res.message, "Submitted.")
                          /\ step' = LastStep
                     ELSE UNCHANGED <<submitState, serverMsg, step>>
                /\ pushed' = BlueprintUrl(id)
           ELSE /\ requests' = [requests EXCEPT ![i].phase = "settled"]
                /\ IF OnIntakePage
                     THEN /\ submitState' = "error"
                          /\ serverMsg' = OrElse(CaughtMessage(res), "Error submitting.")
                     ELSE UNCHANGED <<submitState, serverMsg>>
                /\ localStorage' = setItem(localStorage, KeyIntake, NoItem)
                /\ UNCHANGED <<step, pushed>>
  /\ UNCHANGED <<values, edits, pc, parsed, normalized, env>>
  /\ UNCHANGED <<location, data, missing, effect, helperVars>>

\* mutant: the redirect is made without writing the blueprint under its key
onSubmitSettled_NoBlueprintWrite(i) ==
  /\ requests[i].phase = "answered"
  /\ LET res == requests[i].response
         payload == requests[i].payload
         id == Uuid(Cardinality({j \in 1..Len(requests) : requests[j].id # ""}) + 1)
     IN  IF ResOk(res)
           THEN /\ localStorage' =
                     setItem(localStorage, KeyLast, PlainText(<<id>>))
                /\ requests' = [requests EXCEPT ![i].phase = "settled", ![i].id = id]
                /\ IF OnIntakePage
                     THEN /\ submitState' = "done"
                          /\ serverMsg' = OrElse(res.message, "Submitted.")
                          /\ step' = LastStep
                     ELSE UNCHANGED <<submitState, serverMsg, step>>
                /\ pushed' = BlueprintUrl(id)
           ELSE /\ requests' = [requests EXCEPT ![i].phase = "settled"]
                /\ IF OnIntakePage
                     THEN /\ submitState' = "error"
                          /\ serverMsg' = OrElse(CaughtMessage(res), "Error submitting.")
                     ELSE UNCHANGED <<submitState, serverMsg>>
                /\ UNCHANGED <<localStorage, step, pushed>>
  /\ UNCHANGED <<values, edits, pc, parsed, normalized, env>>
  /\ UNCHANGED <<location, data, missing, effect, helperVars>>

\* mutant: the blueprint stored under the identifier is normalized again
\* from the form as it is when the answer arrives
onSubmitSettled_Renormalizes(i) ==
  /\ requests[i].phase = "answered"
  /\ LET res == requests[i].response
         payload == IF parsed.success THEN buildNormalizedIntake(parsed.data)
                    ELSE requests[i].payload
         id == Uuid(Cardinality({j \in 1..Len(requests) : requests[j].id # ""}) + 1)
     IN  IF ResOk(res)
           THEN /\ localStorage' =
                     setItem(setItem(localStorage, BlueprintKey(id), JsonStringify(payload, 2)),
                             KeyLast, PlainText(<<id>>))
                /\ requests' = [requests EXCEPT ![i].phase = "settled", ![i].id = id]
                /\ IF OnIntakePage
                     THEN /\ submitState' = "done"
                          /\ serverMsg' = OrElse(res.message, "Submitted.")
                          /\ step' = LastStep
                     ELSE UNCHANGED <<submitState, serverMsg, step>>
                /\ pushed' = BlueprintUrl(id)
           ELSE /\ requests' = [requests EXCEPT ![i].phase = "settled"]
                /\ IF OnIntakePage
                     THEN /\ submitState' = "error"
                          /\ serverMsg' = OrElse(CaughtMessage(res), "Error submitting.")
                     ELSE UNCHANGED <<submitState, serverMsg>>
                /\ UNCHANGED <<localStorage, step, pushed>>
  /\ UNCHANGED <<values, edits, pc, parsed, normalized, env>>
  /\ UNCHANGED <<location, data, missing, effect, helperVars>>

\* mutant: the catch block records the identifier of the last blueprint
onSubmitSettled_CatchWritesLast(i) ==
  /\ requests[i].phase = "answered"
  /\ LET res == requests[i].response
         payload == requests[i].payload
         id == Uuid(Cardinality({j \in 1..Len(requests) : requests[j].id # ""}) + 1)
     IN  IF ResOk(res)
           THEN /\ localStorage' =
                     setItem(setItem(localStorage, BlueprintKey(id), JsonStringify(payload, 2)),
                             KeyLast, PlainText(<<id>>))
                /\ requests' = [requests EXCEPT ![i].phase = "settled", ![i].id = id]
                /\ IF OnIntakePage
                     THEN /\ submitState' = "done"
                          /\ serverMsg' = OrElse(res.message, "Submitted.")
                          /\ step' = LastStep
                     ELSE UNCHANGED <<submitState, serverMsg, step>>
                /\ pushed' = BlueprintUrl(id)
           ELSE /\ requests' = [requests EXCEPT ![i].phase = "settled"]
                /\ IF OnIntakePage
                     THEN /\ submitState' = "error"
                          /\ serverMsg' = OrElse(CaughtMessage(res), "Error submitting.")
                     ELSE UNCHANGED <<submitState, serverMsg>>
                /\ localStorage' = setItem(localStorage, KeyLast, PlainText(<<id>>))
                /\ UNCHANGED <<step, pushed>>
  /\ UNCHANGED <<values, edits, pc, parsed, normalized, env>>
  /\ UNCHANGED <<location, data, missing, effect, helperVars>>

\* mutant: the identifier of the last blueprint is recorded once and kept
onSubmitSettled_KeepsFirstLast(i) ==
  /\ requests[i].phase = "answered"
  /\ LET res == requests[i].response
         payload == requests[i].payload
         id == Uuid(Cardinality({j \in 1..Len(requests) : requests[j].id # ""}) + 1)
     IN  IF ResOk(res)
           THEN /\ localStorage' =
                     IF getItem(localStorage, KeyLast) = NoItem
                       THEN setItem(setItem(localStorage, BlueprintKey(id), JsonStringify(payload, 2)),
                                    KeyLast, PlainText(<<id>>))
                       ELSE setItem(localStorage, BlueprintKey(id), JsonStringify(payload, 2))
                /\ requests' = [requests EXCEPT ![i].phase = "settled", ![i].id = id]
                /\ IF OnIntakePage
                     THEN /\ submitState' = "done"
                          /\ serverMsg' = OrElse(res.message, "Submitted.")
                          /\ step' = LastStep
                     ELSE UNCHANGED <<submitState, serverMsg, step>>
                /\ pushed' = BlueprintUrl(id)
           ELSE /\ requests' = [requests EXCEPT ![i].phase = "settled"]
                /\ IF OnIntakePage
                     THEN /\ submitState' = "error"
                          /\ serverMsg' = OrElse(CaughtMessage(res), "Error submitting.")
                     ELSE UNCHANGED <<submitState, serverMsg>>
                /\ UNCHANGED <<localStorage, step, pushed>>
  /\ UNCHANGED <<values, edits, pc, parsed, normalized, env>>
  /\ UNCHANGED <<location, data, missing, effect, helperVars>>

\* onSubmit() after "await fetch(...)": the try block's remainder, or catch.
\* The state setters act only while Page is still mounted; router.push
\* starts a navigation that Navigate completes.
onSubmitSettled(i) ==
  /\ requests[i].phase = "answered"
  /\ LET res == requests[i].response
         payload == requests[i].payload
         id == Uuid(Cardinality({j \in 1..Len(requests) : requests[j].id # ""}) + 1)
     IN  IF ResOk(res)
           THEN /\ localStorage' =
                     setItem(setItem(localStorage, BlueprintKey(id), JsonStringify(payload, 2)),
                             KeyLast, PlainText(<<id>>))
                /\ requests' = [requests EXCEPT ![i].phase = "settled", ![i].id = id]
                /\ IF OnIntakePage
                     THEN /\ submitState' = "done"
                          /\ serverMsg' = OrElse(res.message, "Submitted.")
                          /\ step' = LastStep
                     ELSE UNCHANGED <<submitState, serverMsg, step>>
                /\ pushed' = BlueprintUrl(id)
           ELSE /\ requests' = [requests EXCEPT ![i].phase = "settled"]
                /\ IF OnIntakePage
                     THEN /\ submitState' = "error"
                          /\ serverMsg' = OrElse(CaughtMessage(res), "Error submitting.")
                     ELSE UNCHANGED <<submitState, serverMsg>>
                /\ UNCHANGED <<localStorage, step, pushed>>
  /\ UNCHANGED <<values, edits, pc, parsed, normalized, env>>
  /\ UNCHANGED <<location, data, missing, effect, helperVars>>

\* the navigation started by router.push completes: Page unmounts and
\* BlueprintPage mounts with its initial state
Navigate ==
  /\ pushed # <<>>
  /\ location' = pushed
  /\ pushed' = <<>>
  /\ data' = <<>>
  /\ missing' = FALSE
  /\ effect' = "pending"
  /\ UNCHANGED <<values, edits, pc, parsed, normalized, step, submitState, serverMsg>>
  /\ UNCHANGED <<localStorage, requests, env, helperVars>>

\* useEffect(() => {...}, [id]) of BlueprintPage
useEffect ==
  /\ OnBlueprintPage
  /\ effect = "pending"
  /\ LET raw == getItem(localStorage, BlueprintKey(ParamsId))
     IN  IF Falsy(raw)
           THEN missing' = TRUE /\ UNCHANGED data
         ELSE IF JsonParse(raw).threw
           THEN missing' = TRUE /\ UNCHANGED data
         ELSE data' = JsonParse(raw).value /\ UNCHANGED missing
  /\ effect' = "done"
  /\ UNCHANGED <<values, edits, pc, parsed, normalized, step, submitState, serverMsg>>
  /\ UNCHANGED <<localStorage, requests, env, location>>
  /\ UNCHANGED <<pushed, helperVars>>

\* the user opens /blueprint/<id>: BlueprintPage mounts with its initial state
OpenBlueprint(id) ==
  /\ location # BlueprintUrl(id)
  /\ \A i \in 1..Len(requests) : requests[i].phase \in {"settled", "forgotten"}
  /\ location' = BlueprintUrl(id)
  /\ data' = <<>>
  /\ missing' = FALSE
  /\ effect' = "pending"
  /\ UNCHANGED <<values, edits, pc, parsed, normalized, step, submitState, serverMsg>>
  /\ UNCHANGED <<localStorage, requests, env>>
  /\ pushed' = <<>>
  /\ UNCHANGED helperVars

\* the user opens "/": Page mounts with its initial state and the defaultValues
OpenIntake ==
  /\ OnBlueprintPage
  /\ \A i \in 1..Len(requests) : requests[i].phase \in {"settled", "forgotten"}
  /\ location' = <<"/">>
  /\ values' = defaultValues
  /\ parsed' = safeParse(defaultValues)
  /\ normalized' = PreviewOf(defaultValues)
  /\ step' = 0
  /\ submitState' = "idle"
  /\ serverMsg' = ""
  /\ data' = <<>>
  /\ missing' = FALSE
  /\ effect' = "none"
  /\ UNCHANGED <<edits, pc, localStorage, requests, env>>
  /\ pushed' = <<>>
  /\ UNCHANGED helperVars

NextSubmit ==
  \/ \E f \in FormFields : \E v \in FormValues(f) : Change(f, v)
  \/ next
  \/ back
  \/ onSubmit
  \/ \E i \in 1..Len(requests) : \E outcome \in SendOutcomes : RoutePOST(i, outcome)
  \/ \E i \in 1..Len(requests) : TransportFailure(i)
  \/ \E i \in 1..Len(requests) : onSubmitSettled(i)
  \/ Navigate
  \/ useEffect
  \/ \E id \in UrlIds : OpenBlueprint(id)
  \/ OpenIntake

SpecSubmit == InitSubmit /\ [][NextSubmit]_vars

(***************************************************************************)
(* The blueprint page over a store it did not write: each blueprint key is  *)
(* absent or holds any of the strings below, and the page is opened with    *)
(* any identifier.                                                          *)
(***************************************************************************)
\* the strings found under a blueprint key: "", text that is not JSON, the
\* JSON text "null", and a blueprint as onSubmit stores it
StoredStrings ==
  { PlainText(<<>>), PlainText(<<"{">>), PlainText(<<"n", "u", "l", "l">>),
    JsonStringify(buildNormalizedIntake(defaultValues), 2) }

InitPage ==
  /\ values = defaultValues
  /\ edits = 0
  /\ pc = "editing"
  /\ parsed = NoParse
  /\ normalized = <<>>
  /\ step = 0
  /\ submitState = "idle"
  /\ serverMsg = ""
  /\ \E blueprints \in [UrlIds -> {NoItem} \cup StoredStrings] :
       localStorage = [k \in Keys |->
                         IF k \in {KeyIntake, KeyLast} THEN NoItem ELSE blueprints[k[2]]]
  /\ requests = <<>>
  /\ env = [RESEND_API_KEY |-> TRUE, INTAKE_RECEIVER_EMAIL |-> TRUE]
  /\ \E id \in UrlIds : location = BlueprintUrl(id)
  /\ data = <<>>
  /\ missing = FALSE
  /\ effect = "pending"
  /\ pushed = <<>>
  /\ NoHelperCalled

\* BlueprintPage is rendered again with another params.id while it stays
\* mounted: its state is kept and the effect, whose dependency is id, is
\* scheduled again (the effect of the previous render has run by then)
ChangeId(id) ==
  /\ OnBlueprintPage
  /\ effect = "done"
  /\ id # ParamsId
  /\ location' = BlueprintUrl(id)
  /\ effect' = "pending"
  /\ UNCHANGED <<data, missing>>
  /\ UNCHANGED <<values, edits, pc, parsed, normalized, step, submitState, serverMsg>>
  /\ UNCHANGED <<localStorage, requests, env>>
  /\ UNCHANGED <<pushed, helperVars>>

NextPage ==
  \/ useEffect
  \/ \E id \in UrlIds : OpenBlueprint(id)
  \/ \E id \in UrlIds : ChangeId(id)

SpecPage == InitPage /\ [][NextPage]_vars

\* what BlueprintPage renders: if (missing) the "not found" block with the
\* call to re-submit, else if (!data) "Loading...", else the summary
View ==
  IF missing THEN "not_found"
  ELSE IF data = <<>> THEN "loading"
  ELSE "summary"

(***************************************************************************)
(* A call of a helper of the blueprint page on the values read from a       *)
(* stored document.                                                         *)
(***************************************************************************)
InitHelpers ==
  /\ values = defaultValues
  /\ edits = 0
  /\ pc = "editing"
  /\ parsed = NoParse
  /\ normalized = <<>>
  /\ AppIdle
  /\ call \in HelperCalls
  /\ returned = NotReturned

CallPickFirst ==
  /\ call.fn = "pickFirst"
  /\ returned = NotReturned
  /\ returned' = pickFirst(call.args)
  /\ UNCHANGED <<values, edits, pc, parsed, normalized, appVars, call>>

CallToCustomerMatchingLine ==
  /\ call.fn = "toCustomerMatchingLine"
  /\ returned = NotReturned
  /\ returned' = JsString(toCustomerMatchingLine(call.args[1]))
  /\ UNCHANGED <<values, edits, pc, parsed, normalized, appVars, call>>

CallFormatValue ==
  /\ call.fn = "formatValue"
  /\ returned = NotReturned
  /\ returned' = JsString(formatValue(call.args[1]))
  /\ UNCHANGED <<values, edits, pc, parsed, normalized, appVars, call>>

RenderDuplicatePrevention ==
  /\ call.fn = "duplicatePreventionLine"
  /\ returned = NotReturned
  /\ returned' = JsString(duplicatePreventionLine(call.args))
  /\ UNCHANGED <<values, edits, pc, parsed, normalized, appVars, call>>

RenderOperationalGuarantees ==
  /\ call.fn = "operationalGuarantees"
  /\ returned = NotReturned
  /\ returned' = JsArray(operationalGuarantees(call.args))
  /\ UNCHANGED <<values, edits, pc, parsed, normalized, appVars, call>>

NextHelpers ==
  \/ CallPickFirst
  \/ CallToCustomerMatchingLine
  \/ CallFormatValue
  \/ RenderDuplicatePrevention
  \/ RenderOperationalGuarantees

SpecHelpers == InitHelpers /\ [][NextHelpers]_vars

(***************************************************************************)
(* Vocabulary of the properties.                                           *)
(***************************************************************************)
\* the preview has run on the current candidate
Rendered == pc = "rendered"

\* validate-then-normalize produced a blueprint
Produced == Rendered /\ parsed.success /\ Len(normalized) = 1

\* the blueprint produced
Doc == normalized[1]

\* a RawIntake as typed (IntakeForm): every enum field holds a declared value
\* and every required text is a string
IsRawIntake(v) ==
  /\ \A f \in EnumFields : v[f] \in EnumOf(f)
  /\ \A f \in RequiredTextFields : v[f] # Undefined
  /\ v.subjectTemplate # Undefined

\* a text field that is absent or the empty string
Empty(t) == t = Undefined \/ t = <<>>

\* every field other than f passed validation
OtherFieldsValid(f) == ErrorKeys(parsed) \subseteq {f}

(***************************************************************************)
(* C1.  In every blueprint built from a validated RawIntake:               *)
(* systems.otherCrmName is null unless crm = "other",                      *)
(* systems.otherContactCenterName is null unless contactCenter = "other",  *)
(* matching.externalIdField is null unless matchingStrategy contains       *)
(* "external_id", ownership.fixedOwner is null unless ownerStrategy =      *)
(* "fixed_owner", ownership.interactionIdField is null unless storeCallId, *)
(* whatever the raw companion field holds.                                 *)
(***************************************************************************)
C1_InapplicableFieldsNulled ==
  (Rendered /\ parsed.success) =>
    /\ Len(normalized) = 1
    /\ (values.crm # "other" => Doc.systems.otherCrmName = Null)
    /\ (values.contactCenter # "other" => Doc.systems.otherContactCenterName = Null)
    /\ (~Includes(values.matchingStrategy, "external_id") => Doc.matching.externalIdField = Null)
    /\ (values.ownerStrategy # "fixed_owner" => Doc.ownership.fixedOwner = Null)
    /\ (~values.storeCallId => Doc.ownership.interactionIdField = Null)

\* ownerStrategy "unassigned" with a stray fixedOwner: the blueprint holds null
C1_Witness ==
  /\ Produced
  /\ values.ownerStrategy = "unassigned"
  /\ Truthy(values.fixedOwner)
  /\ Doc.ownership.fixedOwner = Null

(***************************************************************************)
(* C2.  Whenever a required field is empty or misses its length constraint *)
(* (subjectTemplate shorter than 5 characters, associations empty,         *)
(* matchingStrategy empty, contextFields empty, callIdField empty,         *)
(* idempotencyKey empty), validation rejects the input with an error keyed *)
(* to that field; callIdField is required whatever storeCallId is.         *)
(***************************************************************************)
C2_RequiredFieldsRejected ==
  Rendered =>
    /\ ((values.subjectTemplate = Undefined \/ Len(values.subjectTemplate) < 5) =>
          ~parsed.success /\ "subjectTemplate" \in ErrorKeys(parsed))
    /\ (values.associations = <<>> =>
          ~parsed.success /\ "associations" \in ErrorKeys(parsed))
    /\ (values.matchingStrategy = <<>> =>
          ~parsed.success /\ "matchingStrategy" \in ErrorKeys(parsed))
    /\ (values.contextFields = <<>> =>
          ~parsed.success /\ "contextFields" \in ErrorKeys(parsed))
    /\ (Empty(values.callIdField) =>
          ~parsed.success /\ "callIdField" \in ErrorKeys(parsed))
    /\ (Empty(values.idempotencyKey) =>
          ~parsed.success /\ "idempotencyKey" \in ErrorKeys(parsed))

(***************************************************************************)
(* C3.  With every other field valid, validation fails with an error keyed *)
(* to the companion field whenever an enabling condition holds and its     *)
(* companion is empty (crm = "other" / otherCrmName, contactCenter =       *)
(* "other" / otherContactCenterName, "external_id" in matchingStrategy /   *)
(* externalIdField, ownerStrategy = "fixed_owner" / fixedOwner); when the  *)
(* enabling condition does not hold an empty companion causes no error.    *)
(***************************************************************************)
CompanionRule(enabled, f) ==
  (OtherFieldsValid(f) /\ Empty(values[f])) =>
    IF enabled THEN ~parsed.success /\ f \in ErrorKeys(parsed)
    ELSE f \notin ErrorKeys(parsed) /\ parsed.success

C3_CompanionRequiredWhenEnabled ==
  Rendered =>
    /\ CompanionRule(values.crm = "other", "otherCrmName")
    /\ CompanionRule(values.contactCenter = "other", "otherContactCenterName")
    /\ CompanionRule(Includes(values.matchingStrategy, "external_id"), "externalIdField")
    /\ CompanionRule(values.ownerStrategy = "fixed_owner", "fixedOwner")

\* crm = "other" with an empty name typed: the only error is on otherCrmName
C3_Witness ==
  /\ Rendered
  /\ values.crm = "other"
  /\ values.otherCrmName = <<>>
  /\ ~parsed.success
  /\ ErrorKeys(parsed) = {"otherCrmName"}

(***************************************************************************)
(* C4 as stated.  With crm = "other" and every other field valid, any      *)
(* non-empty string as otherCrmName makes validation pass.                 *)
(***************************************************************************)
C4_AnyNonEmptyNamePasses ==
  (Rendered /\ values.crm = "other" /\ OtherFieldsValid("otherCrmName")
     /\ ~Empty(values.otherCrmName)) => parsed.success

(***************************************************************************)
(* C4 amended.  With crm = "other" and every other field valid, any        *)
(* otherCrmName that is non-empty after trimming makes validation pass.    *)
(***************************************************************************)
C4_TrimmedNonEmptyNamePasses ==
  (Rendered /\ values.crm = "other" /\ OtherFieldsValid("otherCrmName")
     /\ ~Empty(values.otherCrmName) /\ Trim(values.otherCrmName) # <<>>) => parsed.success

\* a name with surrounding whitespace is accepted
C4_Witness ==
  /\ Rendered
  /\ values.crm = "other"
  /\ values.otherCrmName = <<" ", "a">>
  /\ parsed.success

C6_RegulatedBlueprint ==
  Produced =>
    IF Doc.security.dataSensitivity = "regulated"
      THEN /\ Doc.security.logging = "no_payload_logging"
           /\ Includes(Doc.warnings, WarnRegulated)
      ELSE ~Includes(Doc.warnings, WarnRegulated)

\* a regulated blueprint was produced
C6_Witness ==
  /\ Produced
  /\ values.dataSensitivity = "regulated"
  /\ Doc.security.dataSensitivity = "regulated"
  /\ Includes(Doc.warnings, WarnRegulated)

(***************************************************************************)
(* C7.  For every validated RawIntake, trigger.event is the resolved       *)
(* contact-center name followed by ".interaction.accepted", the resolved   *)
(* name being the contactCenter enum value when it is not "other" and the  *)
(* companion otherContactCenterName when it is; trigger.interactionType is *)
(* "voice" when voiceOnly is true and "generic" otherwise.                 *)
(***************************************************************************)
C7_TriggerDerivation ==
  Produced =>
    LET validated == parsed.data
        resolved == IF validated.contactCenter = "other"
                      THEN validated.otherContactCenterName
                      ELSE <<validated.contactCenter>>
    IN  /\ Doc.trigger.event = resolved \o <<".interaction.accepted">>
        /\ (validated.contactCenter = "other" =>
              resolved = Trim(values.otherContactCenterName))
        /\ (validated.voiceOnly => Doc.trigger.interactionType = "voice")
        /\ (~validated.voiceOnly => Doc.trigger.interactionType = "generic")

\* contactCenter = "other" with a typed name: the event carries the name
C7_Witness ==
  /\ Produced
  /\ values.contactCenter = "other"
  /\ values.otherContactCenterName = <<"a">>
  /\ Doc.trigger.event = <<"a", ".interaction.accepted">>

(***************************************************************************)
(* C8 as stated.  With "external_id" in matchingStrategy and a supplied    *)
(* non-empty externalIdField, the blueprint's matching.externalIdField     *)
(* equals the supplied value.                                              *)
(***************************************************************************)
C8_ExternalIdRoundTrip ==
  (Produced /\ Includes(values.matchingStrategy, "external_id")
     /\ ~Empty(values.externalIdField)) =>
    Doc.matching.externalIdField = values.externalIdField

(***************************************************************************)
(* C8 amended.  With "external_id" in matchingStrategy and a supplied      *)
(* non-empty externalIdField, the blueprint's matching.externalIdField     *)
(* equals the supplied value with its leading and trailing whitespace      *)
(* removed.                                                                *)
(***************************************************************************)
C8_ExternalIdRoundTripTrimmed ==
  (Produced /\ Includes(values.matchingStrategy, "external_id")
     /\ ~Empty(values.externalIdField)) =>
    Doc.matching.externalIdField = Trim(values.externalIdField)

\* a supplied value with trailing whitespace comes out trimmed
C8_Witness ==
  /\ Produced
  /\ values.matchingStrategy = <<"external_id">>
  /\ values.externalIdField = <<"a", " ">>
  /\ Doc.matching.externalIdField = <<"a">>

(***************************************************************************)
(* C10.  contextInjection.customFields is the sequence obtained by         *)
(* splitting customContextFields on commas, trimming each segment and      *)
(* discarding the empty ones, in the original order: no element is empty   *)
(* or untrimmed, an absent or empty customContextFields yields the empty   *)
(* sequence, and " a, ,b ," yields ["a","b"].                              *)
(* The expected sequence is stated by positions: a segment lies between    *)
(* two neighbouring cuts (the commas and the two ends of the text), what   *)
(* is kept of it runs from its first to its last non-blank character.      *)
(***************************************************************************)
Cuts(s) == {0, Len(s) + 1} \cup {i \in 1..Len(s) : s[i] = ","}

NextCut(s, b) == CHOOSE c \in Cuts(s) : c > b /\ \A d \in Cuts(s) : d > b => c <= d

Inked(s, b) == {i \in (b + 1)..(NextCut(s, b) - 1) : s[i] # " "}

Least(S) == CHOOSE x \in S : \A y \in S : x <= y
Greatest(S) == CHOOSE x \in S : \A y \in S : y <= x

KeptCuts(s) == {b \in Cuts(s) \ {Len(s) + 1} : Inked(s, b) # {}}

ExpectedCustomFields(t) ==
  LET s == IF t = Undefined THEN <<>> ELSE t
      K == KeptCuts(s)
      Nth(i) == CHOOSE b \in K : Cardinality({c \in K : c < b}) = i - 1
  IN  [i \in 1..Cardinality(K) |->
         SubSeq(s, Least(Inked(s, Nth(i))), Greatest(Inked(s, Nth(i))))]

C10_CustomFieldsSplit ==
  Produced =>
    LET custom == Doc.contextInjection.customFields
    IN  /\ custom = ExpectedCustomFields(values.customContextFields)
        /\ \A i \in 1..Len(custom) :
             /\ custom[i] # <<>>
             /\ custom[i] = Trim(custom[i])
             /\ ~Includes(custom[i], ",")
        /\ (Empty(values.customContextFields) => custom = <<>>)
        /\ (values.customContextFields = ExampleCustomContextFields =>
              custom = << <<"a">>, <<"b">> >>)

\* the example: " a, ,b ," was normalized to ["a","b"]
C10_Witness ==
  /\ Produced
  /\ values.customContextFields = ExampleCustomContextFields
  /\ Doc.contextInjection.customFields = << <<"a">>, <<"b">> >>

(***************************************************************************)
(* C11.  The warnings list of a blueprint holds, in this order, the        *)
(* agent-workspace warning (iff agentWorkspace = "unknown") and the        *)
(* regulated-data warning (iff dataSensitivity = "regulated"), each        *)
(* decided independently of the other and nothing else: for a validated    *)
(* RawIntake the environment warning is never present, so the list has at  *)
(* most two entries.                                                       *)
(***************************************************************************)
C11_WarningsOrderedIndependent ==
  Produced =>
    /\ Doc.warnings =
         (IF values.agentWorkspace = "unknown" THEN <<WarnAgentWorkspace>> ELSE <<>>)
         \o (IF values.dataSensitivity = "regulated" THEN <<WarnRegulated>> ELSE <<>>)
    /\ ~Includes(Doc.warnings, WarnEnvironment)
    /\ Len(Doc.warnings) <= 2

\* both warnings at once, the agent-workspace warning first
C11_Witness ==
  /\ Produced
  /\ values.agentWorkspace = "unknown"
  /\ values.dataSensitivity = "regulated"
  /\ Doc.warnings = <<WarnAgentWorkspace, WarnRegulated>>

(***************************************************************************)
(* C12.  Validation rules are checked independently: for every candidate   *)
(* RawIntake the validator returns an error keyed to the field of each     *)
(* violated rule, so a violation of one rule (an out-of-set enum value, a  *)
(* too-short subjectTemplate) never suppresses the error of another        *)
(* violated rule on an unrelated field (the missing companion name for     *)
(* crm = "other").  The violated rules are stated on the candidate itself. *)
(***************************************************************************)
\* a companion text that is absent or blank
Blank(t) == t = Undefined \/ Trim(t) = <<>>

ViolatedRuleFields(v) ==
  {f \in EnumFields : v[f] \notin EnumOf(f)}
  \cup {f \in RequiredTextFields : v[f] = Undefined}
  \cup (IF v.subjectTemplate = Undefined \/ Len(v.subjectTemplate) < 5
          THEN {"subjectTemplate"} ELSE {})
  \cup {f \in {"associations", "matchingStrategy", "contextFields"} : v[f] = <<>>}
  \cup (IF v.crm = "other" /\ Blank(v.otherCrmName) THEN {"otherCrmName"} ELSE {})
  \cup (IF v.contactCenter = "other" /\ Blank(v.otherContactCenterName)
          THEN {"otherContactCenterName"} ELSE {})
  \cup (IF Includes(v.matchingStrategy, "external_id") /\ Blank(v.externalIdField)
          THEN {"externalIdField"} ELSE {})
  \cup (IF v.ownerStrategy = "fixed_owner" /\ Blank(v.fixedOwner) THEN {"fixedOwner"} ELSE {})
  \cup (IF v.dataSensitivity = "regulated" /\ v.logging # "no_payload_logging"
          THEN {"logging"} ELSE {})

C12_RulesIndependent ==
  Rendered =>
    /\ ErrorKeys(parsed) = ViolatedRuleFields(values)
    /\ (parsed.success <=> ViolatedRuleFields(values) = {})

(***************************************************************************)
(* Vocabulary of the submit flow.                                           *)
(***************************************************************************)
\* the fetches whose onSubmit call is still known
Live == {i \in 1..Len(requests) : requests[i].phase # "forgotten"}

\* the document a stored string holds: <<>> when the string is absent, does
\* not parse, or parses to null
StoredDoc(key) ==
  IF Falsy(getItem(localStorage, key)) \/ JsonParse(getItem(localStorage, key)).threw
    THEN <<>>
    ELSE JsonParse(getItem(localStorage, key)).value

\* C13: after a validated submit the blueprint of the latest submission is
\* stored under micro_si_intake_v1 while the transmission is pending and
\* after it succeeded, failed on the way or was answered with an error; a
\* failed transmission does not remove it.
C13_PersistenceIndependentOfTransmission ==
  \A i \in Live :
    i = Len(requests) => StoredDoc(KeyIntake) = <<requests[i].payload>>

C13_Witness ==
  /\ Len(requests) >= 1
  /\ requests[Len(requests)].phase = "settled"
  /\ ~ResOk(requests[Len(requests)].response)
  /\ submitState = "error"
  /\ StoredDoc(KeyIntake) = <<requests[Len(requests)].payload>>

\* the fetches the route has answered
Answered ==
  {i \in Live : requests[i].phase \in {"answered", "settled"}
                 /\ requests[i].response.kind = "json"}

\* C14: the route answers ok = true with "Thanks - intake received." only
\* when the email was sent successfully; it answers status 500 with
\* ok = false and an error message whenever the send fails or is rejected by
\* the email service, and whenever RESEND_API_KEY or INTAKE_RECEIVER_EMAIL
\* is missing, in which case no send is attempted.
C14_RouteAnswerReflectsSend ==
  \A i \in Answered :
    LET r == requests[i]
    IN  /\ r.response.ok => /\ r.send = "delivered"
                             /\ r.response.status = 200
                             /\ r.response.message = "Thanks - intake received."
        /\ r.send # "delivered" => /\ r.response.status = 500
                                   /\ ~r.response.ok
                                   /\ r.response.error # ""
        /\ (~env.RESEND_API_KEY \/ ~env.INTAKE_RECEIVER_EMAIL) => r.send = "none"

\* the candidates the wizard of this state machine can hold
FormCandidates ==
  {[defaultValues EXCEPT !.crm = c, !.otherCrmName = n] :
     c \in FormValues("crm"), n \in {Undefined} \cup FormValues("otherCrmName")}

\* the blueprints the normalizer returns for them
NormalizerOutputs ==
  {buildNormalizedIntake(safeParse(v).data) : v \in {c \in FormCandidates : safeParse(c).success}}

\* the blueprint page has run its load for the identifier of its URL
Loaded == OnBlueprintPage /\ effect = "done"

\* the identifier of the URL is one under which a submission stored a blueprint
StoredId == getItem(localStorage, BlueprintKey(ParamsId)) # NoItem

\* C15: a blueprint page loaded with a stored identifier obtains a document
\* equal to the normalizer's output for the submission that generated the
\* identifier: a complete blueprint, never a partial one, and the page is
\* not "not found".
C15_RetrievalRoundTrip ==
  (Loaded /\ StoredId) =>
    /\ ~missing
    /\ Len(data) = 1
    /\ data[1] \in NormalizerOutputs
    /\ \A i \in Live : requests[i].id = ParamsId => data = <<requests[i].payload>>

C15_Witness ==
  /\ Loaded
  /\ StoredId
  /\ \E i \in Live : requests[i].id = ParamsId /\ data = <<requests[i].payload>>
  /\ data = <<buildNormalizedIntake(safeParse([defaultValues EXCEPT !.crm = "salesforce"]).data)>>

\* the string under the blueprint key of the page's identifier
Raw == getItem(localStorage, BlueprintKey(ParamsId))

\* the string is missing, empty, or does not parse back to a blueprint
NoBlueprintStored == Falsy(Raw) \/ JsonParse(Raw).threw \/ JsonParse(Raw).value = <<>>

\* C16: once the load has run, the blueprint page shows "not found" for
\* every identifier whose entry is missing, empty or does not parse back to
\* a blueprint document, and otherwise shows the loaded document; it does
\* not remain in the loading state.
C16_LoadEndsInSummaryOrNotFound ==
  Loaded =>
    /\ View \in {"summary", "not_found"}
    /\ NoBlueprintStored => View = "not_found"

\* the identifiers generated by the submissions so far
GeneratedIds == {requests[i].id : i \in 1..Len(requests)} \ {""}

\* C17: the redirect to /blueprint/<id> is made only after the blueprint was
\* written under micro_si_blueprint_<id>: whenever the blueprint page shows
\* an identifier generated by a submit, the entry is stored, and once its
\* load has run the page shows the document.
C17_RedirectAfterWrite ==
  (OnBlueprintPage /\ ParamsId \in GeneratedIds) =>
    /\ getItem(localStorage, BlueprintKey(ParamsId)).kind = "json"
    /\ Loaded => View = "summary" /\ data = StoredDoc(BlueprintKey(ParamsId))

\* the page was reached by the redirect of the submit that just settled,
\* and its load has run
C17_Witness ==
  /\ Loaded
  /\ submitState = "done"
  /\ step = LastStep
  /\ Len(requests) >= 1
  /\ requests[Len(requests)].id = ParamsId
  /\ View = "summary"

\* C18: the body of the outbound request, the document stored under
\* micro_si_intake_v1 and the document stored under micro_si_blueprint_<id>
\* are all equal to the one normalizer output (payload) of their submit,
\* whatever the delivery result is.
C18_HandedOffUnchanged ==
  \A i \in Live :
    LET r == requests[i]
    IN  /\ r.payload \in NormalizerOutputs
        /\ JsonParse(r.body).value = <<r.payload>>
        /\ i = Len(requests) => StoredDoc(KeyIntake) = <<r.payload>>
        /\ r.id # "" => StoredDoc(BlueprintKey(r.id)) = <<r.payload>>
        /\ (r.phase = "settled" /\ ResOk(r.response)) => r.id # ""

\* a submit settled with success after the user changed the form while the
\* transmission was pending
C18_Witness ==
  \E i \in Live :
    /\ requests[i].id # ""
    /\ i = Len(requests)
    /\ parsed.success
    /\ requests[i].payload # buildNormalizedIntake(parsed.data)
    /\ StoredDoc(BlueprintKey(requests[i].id)) = <<requests[i].payload>>
    /\ StoredDoc(KeyIntake) = JsonParse(requests[i].body).value

(***************************************************************************)
(* Vocabulary of the helper calls.                                          *)
(***************************************************************************)
Called(fn) == call.fn = fn /\ returned # NotReturned

\* the value is absent: undefined, null or the empty string
AbsentRead(v) == v.type \in {"undefined", "null"} \/ (v.type = "string" /\ Len(v.text) = 0)

\* the positions of the candidates that are defined, non-null and not ""
Present(candidates) == {i \in 1..Len(candidates) : ~AbsentRead(candidates[i])}

\* C19: pickFirst returns the candidate of the least position that is
\* defined, non-null and not the empty string, so never a later candidate
\* when an earlier one qualifies, and undefined when there is none.
C19_PickFirstInPriorityOrder ==
  Called("pickFirst") =>
    IF Present(call.args) = {} THEN returned = JsUndefined
    ELSE \E i \in Present(call.args) :
           /\ \A j \in Present(call.args) : i <= j
           /\ returned = call.args[i]

C19_Witness ==
  /\ Called("pickFirst")
  /\ call.args = <<JsUndefined, JsString(<<>>), JsString(<<"b">>), JsString(<<"a">>)>>
  /\ returned = JsString(<<"b">>)

\* C20: the helpers substitute a marker for absent fields:
\* toCustomerMatchingLine returns "Not specified" for a missing or empty
\* strategy, the duplicate-prevention line is "Not specified" when neither
\* idempotencyKey nor an interaction-id field is present, and formatValue
\* returns "N/A" for null, undefined and empty arrays.
C20_HelpersTolerateAbsentFields ==
  /\ Called("toCustomerMatchingLine") =>
       ((AbsentRead(call.args[1]) \/ call.args[1] = JsArray(<<>>))
          => returned = JsString(<<"Not specified">>))
  /\ Called("duplicatePreventionLine") =>
       ((\A i \in 1..5 : AbsentRead(call.args[i]))
          => returned = JsString(<<"Not specified">>))
  /\ Called("formatValue") =>
       (call.args[1] \in {JsNull, JsUndefined, JsArray(<<>>)}
          => returned = JsString(<<"N/A">>))

C20_Witness ==
  /\ Called("toCustomerMatchingLine")
  /\ call.args[1] = JsArray(<<>>)
  /\ returned = JsString(<<"Not specified">>)

(***************************************************************************)
(* Vocabulary of the wizard.                                                *)
(***************************************************************************)
\* Page stays mounted over the step
SamePage == OnIntakePage /\ OnIntakePage'

\* every field of the current step passes validation
StepFieldsValid == ErrorKeys(safeParse(values)) \cap steps[step + 1] = {}

\* C21: the wizard step stays within 0..8; a step forward is by exactly one
\* and only when every field of the current step passes validation; a step
\* back never goes below 0; no action moves forward by more than one step.
C21_LinearWizardSteps ==
  [][ SamePage =>
        /\ step \in 0..LastStep /\ step' \in 0..LastStep
        /\ step' > step => (step' = step + 1 /\ StepFieldsValid) ]_vars

\* the "Submit intake" button can be clicked
SubmitEnabled == OnIntakePage /\ step = LastStep /\ submitState # "submitting"

\* C22: a submit whose form values fail validation resets the wizard to
\* step 0 and does nothing else: nothing is written to the local store, no
\* request is made, no redirect is started, and submitState and the server
\* message are unchanged.
C22_InvalidSubmitOnlyResets ==
  [][ (onSubmit /\ ~safeParse(values).success) =>
        /\ step' = 0
        /\ UNCHANGED <<localStorage, requests, submitState, serverMsg>>
        /\ UNCHANGED <<values, location, pushed>> ]_vars

\* the state an invalid submit leaves: the form was made invalid while the
\* transmission of an earlier submit was pending, its success put the
\* wizard on the last step, and the submit from there reset it to step 0
C22_Witness ==
  /\ OnIntakePage
  /\ step = 0
  /\ ~safeParse(values).success
  /\ submitState = "done"
  /\ pushed # <<>>
  /\ Len(requests) = 1

\* C26: whenever the wizard is at the Review & Submit step the complete form
\* state passes validation, so the normalized preview is non-null there and
\* a submit from that step does not take the reset-to-step-0 branch.
C26_ReviewStepImpliesValid ==
  (OnIntakePage /\ step = LastStep) =>
    /\ safeParse(values).success
    /\ Len(normalized) = 1

\* the answer is an OK response of the route: its status is within 200..299
OkAnswer(r) == r.response.kind = "json" /\ r.response.status \in 200..299

\* the onSubmit call of request i returns in this step
Settles(i) ==
  /\ i \in 1..Len(requests)
  /\ requests[i].phase = "answered"
  /\ Len(requests') = Len(requests)
  /\ requests'[i].phase = "settled"

\* C23: submitState moves to "submitting" when a submit starts and from
\* "submitting" to "done" or "error"; it becomes "done" only when the route
\* answered with an OK response; when the request fails or the route
\* answers non-OK it becomes "error" with a non-empty message and no
\* redirect to a blueprint page is started.
C23_SubmitOutcomeReported ==
  [][ SamePage =>
        /\ submitState' # submitState =>
              \/ submitState # "submitting" /\ submitState' = "submitting"
              \/ submitState = "submitting" /\ submitState' \in {"done", "error"}
        /\ (submitState' = "done" /\ submitState # "done") =>
              \E i \in 1..Len(requests) : Settles(i) /\ OkAnswer(requests[i])
        /\ \A i \in 1..Len(requests) :
              (Settles(i) /\ ~OkAnswer(requests[i])) =>
                /\ submitState' = "error"
                /\ serverMsg' # ""
                /\ UNCHANGED <<pushed, location>> ]_vars

\* the route answered 500 for want of its API key and the page reports it
C23_Witness ==
  /\ OnIntakePage
  /\ submitState = "error"
  /\ serverMsg = "Missing RESEND_API_KEY"
  /\ pushed = <<>>
  /\ Len(requests) >= 1
  /\ requests[Len(requests)].phase = "settled"
  /\ requests[Len(requests)].response.status = 500

\* the keys of the identified entries and of the last identifier
IdentifiedKeys == Keys \ {KeyIntake}

\* C25: micro_si_blueprint_<id> and micro_si_last_blueprint_id are written
\* only when the route answered OK; a submit whose transmission fails
\* writes only micro_si_intake_v1, creates no identified entry and leaves
\* micro_si_last_blueprint_id unchanged.
C25_IdentifiedEntriesOnlyAfterOk ==
  [][ /\ (\E k \in IdentifiedKeys : localStorage'[k] # localStorage[k]) =>
           \E i \in 1..Len(requests) : Settles(i) /\ OkAnswer(requests[i])
      /\ \A i \in 1..Len(requests) :
           (Settles(i) /\ ~OkAnswer(requests[i])) => localStorage' = localStorage ]_vars

\* a first submit was stored under its identifier; a later submit of another
\* blueprint failed: its blueprint is under micro_si_intake_v1 only
C25_Witness ==
  /\ Len(requests) = 2
  /\ requests[2].phase = "settled"
  /\ ~OkAnswer(requests[2])
  /\ requests[2].id = ""
  /\ getItem(localStorage, KeyLast) = PlainText(<<Uuid(1)>>)
  /\ StoredDoc(KeyIntake) = <<requests[2].payload>>
  /\ StoredDoc(BlueprintKey(Uuid(1))) # StoredDoc(KeyIntake)
  /\ getItem(localStorage, BlueprintKey(Uuid(2))) = NoItem

\* the transmissions in flight: fetch was called and onSubmit has not yet
\* resumed after it
InFlight == {i \in 1..Len(requests) : requests[i].phase \in {"pending", "answered"}}

LastNamesLatestEntry ==
  getItem(localStorage, KeyLast) # NoItem =>
    /\ GeneratedIds # {}
    /\ getItem(localStorage, KeyLast) = PlainText(<<Uuid(Cardinality(GeneratedIds))>>)
    /\ getItem(localStorage, BlueprintKey(Uuid(Cardinality(GeneratedIds)))) # NoItem

\* C28: when micro_si_last_blueprint_id is set it names an identifier whose
\* entry exists and holds the blueprint of the most recent submit the route
\* answered OK; the entries of earlier identifiers are kept unchanged.
C28_LastIdNamesLatestBlueprint ==
  [][ /\ LastNamesLatestEntry'
      /\ \A i \in 1..Len(requests) :
            (Settles(i) /\ OkAnswer(requests[i])) =>
              /\ requests'[i].id \notin GeneratedIds
              /\ localStorage'[KeyLast] = PlainText(<<requests'[i].id>>)
              /\ localStorage'[BlueprintKey(requests'[i].id)] =
                    JsonStringify(requests[i].payload, 2)
              /\ \A k \in IdentifiedKeys \ {KeyLast, BlueprintKey(requests'[i].id)} :
                    localStorage'[k] = localStorage[k] ]_vars

\* two submits of different blueprints were answered OK: the last identifier
\* names the second one and the entry of the first one still holds the first
C28_Witness ==
  /\ Len(requests) = 2
  /\ requests[2].phase = "settled"
  /\ requests[2].id = Uuid(2)
  /\ getItem(localStorage, KeyLast) = PlainText(<<Uuid(2)>>)
  /\ StoredDoc(BlueprintKey(Uuid(2))) = <<requests[2].payload>>
  /\ StoredDoc(BlueprintKey(Uuid(1))) # <<>>
  /\ StoredDoc(BlueprintKey(Uuid(1))) # StoredDoc(BlueprintKey(Uuid(2)))

\* the name prefix of an event type: what precedes ".interaction.accepted"
EventPrefix(event) == SubSeq(event, 1, Len(event) - 1)

Sentence(condition, sentence) == IF condition THEN <<sentence>> ELSE <<>>

\* the latency target named after the context sentence, when there is one
TargetNote(latencyTarget) ==
  IF AbsentRead(latencyTarget) THEN ""
  ELSE " (target: " \o Interpolate(latencyTarget.text) \o ")"

\* the sentences the claim lists for the fields read, in its order
ExpectedGuarantees(idempotencyKey, event, latencyTarget, expectedVolume, logging, owner) ==
  Sentence(~AbsentRead(idempotencyKey),
           "Uses duplicate prevention key " \o Interpolate(idempotencyKey.text)
             \o " to avoid double-logging the same interaction")
  \o Sentence(~AbsentRead(event) \/ ~AbsentRead(latencyTarget),
              "Agent context appears on interaction acceptance" \o TargetNote(latencyTarget))
  \o Sentence(\/ expectedVolume.text \in {<<"100_1000">>, <<"1000_10000">>, <<"gt_10000">>}
              \/ latencyTarget.text \in {<<"under_2s">>, <<"under_500ms">>},
              "Built for higher volume with asynchronous processing and retry-safe behavior")
  \o Sentence(logging.text = <<"mask_pii">>, "PII is masked in logs")
  \o Sentence(logging.text = <<"no_payload_logging">>, "No payload logging")
  \o Sentence(~AbsentRead(owner), toOwnerStrategyLabel(Interpolate(owner.text)))

\* C24: the operational-guarantees list is derived from the fields read from
\* the stored document alone and leaves the document as it is; it holds, in
\* this order, the duplicate-prevention sentence iff idempotencyKey is
\* non-empty, the context sentence iff trigger.event or latencyTarget is
\* present, the high-volume sentence iff expectedVolume is 100_1000,
\* 1000_10000 or gt_10000 or latencyTarget is under_2s or under_500ms, at
\* most one logging sentence (mask_pii or no_payload_logging), and the
\* owner-strategy sentence iff an owner strategy is present.
C24_OperationalGuarantees ==
  [][ (call.fn = "operationalGuarantees" /\ returned' # returned) =>
        /\ UNCHANGED <<call, data, localStorage>>
        /\ returned'.type = "array"
        /\ returned'.items =
             ExpectedGuarantees(call.args[1], call.args[2], call.args[3], call.args[4],
                                call.args[5],
                                IF AbsentRead(call.args[6]) THEN call.args[7]
                                ELSE call.args[6]) ]_vars

\* every sentence at once, the owner strategy read from the flat field
C24_Witness ==
  /\ Called("operationalGuarantees")
  /\ call.args = <<JsString(<<"a">>), JsString(<<"genesys", ".interaction.accepted">>),
                   JsString(<<"best_effort">>), JsString(<<"gt_10000">>),
                   JsString(<<"no_payload_logging">>), JsString(<<>>),
                   JsString(<<"unassigned">>)>>
  /\ returned.items =
       << "Uses duplicate prevention key a to avoid double-logging the same interaction",
          "Agent context appears on interaction acceptance (target: best_effort)",
          "Built for higher volume with asynchronous processing and retry-safe behavior",
          "No payload logging",
          "Leave CRM activity unassigned" >>

\* C30: once the load for the current identifier has run, the blueprint
\* page shows "not found" if and only if the entry of the current identifier
\* is missing or cannot be parsed, and it shows a document only if that
\* document is the one stored under the current identifier, also after the
\* identifier changed while the page stayed mounted.
C30_ViewReflectsCurrentId ==
  Loaded =>
    /\ View = "not_found" <=> (Falsy(Raw) \/ JsonParse(Raw).threw)
    /\ View = "summary" =>
         /\ ~Falsy(Raw)
         /\ ~JsonParse(Raw).threw
         /\ data = JsonParse(Raw).value

====
